---- MODULE Spec2Model ----
(***************************************************************************)
(* Model of the organization repository-collaborator audit.                *)
(*                                                                         *)
(* Three programs of the repository are modelled:                          *)
(*   - the team-aware PowerShell export (src/unnamed/part_000): steps 6-13 *)
(*     (team maps, team rows, direct collaborators, merge, filter, sort),  *)
(*     specification Spec, SpecNamed with -FetchNames, SpecTeams over     *)
(*     teams with and without members and SpecOrder with step 9 folding    *)
(*     the team rows in any order;                                         *)
(*   - the permission normalizers of the two PowerShell exports            *)
(*     (directPerm, matchedPermission, the team flag list), specification  *)
(*     SpecNorm, the page traversals, specifications SpecPage,             *)
(*     SpecCollabPage and SpecCursor, and the retry loops and quota gates, *)
(*     specification SpecCall, SpecLog over the headers a response can     *)
(*     carry, SpecAnyCount over retry counts of zero and below, SpecFlags  *)
(*     over flag bundles the tables do not know;                           *)
(*   - the Action pipeline (src/index.js, last variant), specification     *)
(*     SpecAction, and one whole run of part_000 or of the Action with     *)
(*     the failures of its calls, specification SpecRun.                   *)
(*                                                                         *)
(* Strings that the scripts build by concatenation are sequences of        *)
(* tokens: viaTeam "" is << >>, "tA" is <<"tA">> and "tA,tB" is            *)
(* <<"tA", ",", "tB">>.  The hashtable key "$repo:$login" is the pair      *)
(* <<repo, login>> (repository names and logins hold no ":").              *)
(***************************************************************************)
EXTENDS Integers, Sequences, FiniteSets, TLC

VARIABLES
    \* ---- part_000 pipeline ----
    Permission,         \* the -Permission parameter
    keysOrder,          \* enumeration order of $permissionDisplay.Keys
    teamsApi,           \* what the teams endpoints serve (steps 5 and 6)
    collabsApi,         \* what the collaborators endpoint serves, per repo
    repos,              \* $repos after step 2
    teamRepoPerms,      \* $teamRepoPerms (step 6)
    teamMembers,        \* $teamMembers (step 6)
    teamUserRepoPerms,  \* $teamUserRepoPerms (step 7)
    collabsArray,       \* $collabsArray (step 8)
    rowsByKey,          \* $rowsByKey: key -> reference to a row object
    allRows,            \* $allRows: sequence of references
    csvRows,            \* what Export-Csv receives (step 13)
    ri,                 \* index of the repo step 8 handles next
    ti,                 \* index of the team row step 9 folds next
    pending,            \* indices of the team rows a fold in any order has yet to take
    pc,
    \* ---- one collaborator through the normalizers of the two PowerShell exports ----
    normPermission,     \* the -Permission parameter
    normFlags,          \* the true flags of $collab.permissions / $repoPerm.permissions
    normOrder,          \* enumeration order of the flag names
    directPerm,         \* $directPerm (part_000 step 8)
    matchedPermission,  \* $matchedPermission (Get-GitHubOrgRepoCollaborators.ps1 step 5)
    teamPermission,     \* the permission of the team rows built from the flags
    normErrors,         \* error records raised while the team rows were built
    legacyRows,         \* rows Get-GitHubOrgRepoCollaborators.ps1 adds for the collaborator
    normPc,
    \* ---- one page traversal over a source of nItems items ----
    pageStyle,          \* which loop runs
    nItems,             \* items the source holds: 1..nItems
    page,               \* $page / page
    endCursor,          \* $endCursor (0: $null)
    collected,          \* the items assembled so far
    requests,           \* requests made
    chain,              \* the pages a cursor connection serves, in order
    sentCursors,        \* the cursor each request carried (0: null)
    pagePc,
    \* ---- index.js (the Action) ----
    rolePermission,     \* the permission input
    jsCollabsApi,       \* the collaborator edges GraphQL serves for the repository
    jsMembersApi,       \* the membersWithRole edges GraphQL serves
    jsCollabsArray,     \* collabsArray
    memberArray,        \* memberArray
    mergeArray,         \* mergeArray
    sortArray,          \* the rows written to the report
    jsFailed,           \* core.setFailed was called
    jsPc,               \* position in the orchestrator
    \* ---- one execute: a request with its retry loop and quota gate ----
    callStyle,          \* which client runs the request
    retryCount,         \* $RetryCount / retries
    errKind,            \* the error the transport fails with
    failTimes,          \* the transport fails this many attempts, then succeeds
    quotaFails,         \* the quota lookup itself fails
    ci,                 \* $i / i of the retry loop
    attempts,           \* transport calls issued
    sleepLog,           \* backoff sleeps so far, in milliseconds
    outcome,            \* what execute gave its caller
    now,                \* clock, in seconds
    rateInfo,           \* the last quota reading
    gateChecked,        \* a quota reading was taken since the last transport call
    headers,            \* the headers of the responses the transport gives
    callPc,
    \* ---- one whole run, with the failures its calls may end in ----
    runProgram,         \* "part000" or "action"
    fault,              \* the call of the run that fails after its retries, if any
    saml,               \* the organization has a SAML identity provider
    fetchNames,         \* -FetchNames
    jsonOut,            \* a JSON report is requested ($JSONPath / jsonExport)
    nameFails,          \* logins whose profile lookup fails
    emailFails,         \* logins whose verified-email lookup fails
    grants,             \* the grants the traversals yield, one per login
    runRows,            \* $allRows / collabsArray, then mergeArray
    runEmails,          \* $emailArray / emailArray
    runMembers,         \* $memberArray / memberArray
    verifiedHash,       \* $verifiedEmailsHash
    nameRequests,       \* logins a profile request was issued for, in order
    runStarted,         \* traversals started so far
    csvWritten,         \* the CSV report was written
    jsonWritten,        \* the JSON report was written
    reportRows,         \* the rows of the written report
    runFailed,          \* the run ended on a raised error / core.setFailed was called
    runPc

pipeVars == <<Permission, keysOrder, teamsApi, collabsApi, repos, teamRepoPerms,
              teamMembers, teamUserRepoPerms, collabsArray, rowsByKey, allRows,
              csvRows, ri, ti, pending, pc>>

normVars == <<normPermission, normFlags, normOrder, directPerm, matchedPermission,
              teamPermission, normErrors, legacyRows, normPc>>

pageVars == <<pageStyle, nItems, page, endCursor, collected, requests, chain, sentCursors,
              pagePc>>

jsVars == <<rolePermission, jsCollabsApi, jsMembersApi, jsCollabsArray,
            memberArray, mergeArray, sortArray, jsFailed, jsPc>>

callVars == <<callStyle, retryCount, errKind, failTimes, quotaFails, ci, attempts, sleepLog,
              outcome, now, rateInfo, gateChecked, headers, callPc>>

runVars == <<runProgram, fault, saml, fetchNames, jsonOut, nameFails, emailFails, grants,
             runRows, runEmails, runMembers, verifiedHash, nameRequests, runStarted,
             csvWritten, jsonWritten, reportRows, runFailed, runPc>>

vars == <<pipeVars, normVars, pageVars, jsVars, callVars, runVars>>

-----------------------------------------------------------------------------
(* Bounds and input domains *)

MaxTeams == 2
MaxCollabs == 2

Logins == {"u1", "u2"}
RepoNames == <<"r1">>
TeamSlugs == <<"tA", "tB", "tC">>

\* The values of -Permission the script documents.
PermissionInputs == {"ADMIN", "MAINTAIN", "WRITE", "TRIAGE", "READ", "ALL"}

\* The flag names of a REST "permissions" object.
FlagNames == {"admin", "maintain", "push", "triage", "pull"}

\* The flag bundles GitHub serves for the five roles (a role implies the lower ones).
RoleFlags ==
    [read |-> {"pull"},
     triage |-> {"pull", "triage"},
     write |-> {"pull", "triage", "push"},
     maintain |-> {"pull", "triage", "push", "maintain"},
     admin |-> {"pull", "triage", "push", "maintain", "admin"}]

-----------------------------------------------------------------------------
(* Helpers *)

RECURSIVE SeqsUpTo(_, _)
SeqsUpTo(S, n) ==
    IF n = 0 THEN {<< >>}
    ELSE LET shorter == SeqsUpTo(S, n - 1)
         IN shorter \cup {Append(s, x) : s \in {t \in shorter : Len(t) = n - 1}, x \in S}

Range(s) == {s[i] : i \in 1..Len(s)}

\* [array]::IndexOf / String.IndexOf on an array: 0-based, -1 when absent.
IndexOf(s, x) ==
    IF \E i \in 1..Len(s) : s[i] = x
    THEN (CHOOSE i \in 1..Len(s) : s[i] = x /\ \A j \in 1..(i - 1) : s[j] # x) - 1
    ELSE -1

\* String.ToLower on the documented parameter values.
ToLower(p) ==
    CASE p = "ADMIN" -> "admin"
      [] p = "MAINTAIN" -> "maintain"
      [] p = "WRITE" -> "write"
      [] p = "TRIAGE" -> "triage"
      [] p = "READ" -> "read"
      [] p = "ALL" -> "all"
      [] OTHER -> p

-----------------------------------------------------------------------------
(* part_000: permission tables *)

permissionDisplay ==
    [pull |-> "read", push |-> "write", admin |-> "admin",
     maintain |-> "maintain", triage |-> "triage"]

order == <<"read", "triage", "write", "maintain", "admin">>

permKey == ToLower(Permission)

-----------------------------------------------------------------------------
(* part_000 step 6: team-repo-permission map and team-member map *)

\* Get-Member lists the NoteProperty names in alphabetical order; the Where-Object
\* keeps the names whose flag is true.
\* "custom" stands for a flag name the script's tables do not know.
MemberNames == <<"admin", "custom", "maintain", "pull", "push", "triage">>

TeamFlagList(permissions) ==
    LET test(n) == n \in permissions
    IN SelectSeq(MemberNames, test)

RECURSIVE Flatten(_)
Flatten(ss) == IF ss = << >> THEN << >> ELSE Head(ss) \o Flatten(Tail(ss))

BuildTeamRepoPerms(api) ==
    Flatten([t \in 1..Len(api) |->
        [g \in 1..Len(api[t].repos) |->
            [repo |-> api[t].repos[g].name,
             team |-> api[t].slug,
             permission |-> TeamFlagList(api[t].repos[g].permissions)]]])

BuildTeamMembers(api) ==
    Flatten([t \in 1..Len(api) |->
        [m \in 1..Len(api[t].members) |->
            [team |-> api[t].slug, login |-> api[t].members[m]]]])

-----------------------------------------------------------------------------
(* part_000 step 7: one team row per (grant, member, true flag) *)

TeamRow(repoName, login, perm, teamSlug) ==
    [orgRepo |-> repoName,
     login |-> login,
     name |-> "",
     permission |-> permissionDisplay[perm],
     viaTeam |-> <<teamSlug>>]

\* Step 7 without the Where-Object on the team: the members of every team.
BuildTeamUserRepoPerms_AnyTeam(trps, tms) ==
    Flatten([g \in 1..Len(trps) |->
        Flatten([m \in 1..Len(tms) |->
               [f \in 1..Len(trps[g].permission) |->
                   TeamRow(trps[g].repo, tms[m].login,
                           trps[g].permission[f], trps[g].team)]])])

BuildTeamUserRepoPerms(trps, tms) ==
    Flatten([g \in 1..Len(trps) |->
        LET isMember(m) == m.team = trps[g].team
            members == SelectSeq(tms, isMember)
        IN Flatten([m \in 1..Len(members) |->
               [f \in 1..Len(trps[g].permission) |->
                   TeamRow(trps[g].repo, members[m].login,
                           trps[g].permission[f], trps[g].team)]])])

-----------------------------------------------------------------------------
(* part_000 step 8: direct collaborators *)

\* foreach ($permKeyAPI in $permissionDisplay.Keys): every true flag overwrites
\* $directPerm, so the flag enumerated last decides.
RECURSIVE DirectPermLoop(_, _, _, _)
DirectPermLoop(permissions, keys, i, perm) ==
    IF i > Len(keys) THEN perm
    ELSE DirectPermLoop(permissions, keys, i + 1,
                        IF keys[i] \in permissions
                        THEN permissionDisplay[keys[i]]
                        ELSE perm)

DirectPerm(permissions, keys) == DirectPermLoop(permissions, keys, 1, "")

KeepDirect(P, perm) ==
    (P = "ALL" /\ perm # "") \/ (ToLower(P) = perm)

\* The name GET /users/{login} serves.
ProfileNameOf == [u1 |-> "User One", u2 |-> "User Two"]

\* $name = $collab.name (the collaborators listing carries none), and with
\* -FetchNames the name of the profile.
StepEightName(login) == IF fetchNames THEN ProfileNameOf[login] ELSE ""

DirectRow(repoName, login, perm) ==
    [orgRepo |-> repoName,
     login |-> login,
     name |-> StepEightName(login),
     permission |-> perm,
     viaTeam |-> << >>]

CollabRows(P, keys, repoName, collabs) ==
    LET rowOf(c) == DirectRow(repoName, c.login, DirectPerm(c.permissions, keys))
        all == [i \in 1..Len(collabs) |-> rowOf(collabs[i])]
        keep(r) == KeepDirect(P, r.permission)
    IN SelectSeq(all, keep)

-----------------------------------------------------------------------------
(* part_000 step 9: merge by key, keep the highest permission *)

KeyOf(row) == <<row.orgRepo, row.login>>

CollabRef(i) == [arr |-> "collabs", idx |-> i]
TeamRef(j) == [arr |-> "team", idx |-> j]

\* The row object a reference points to.
Deref(ref, ca, tu) == IF ref.arr = "collabs" THEN ca[ref.idx] ELSE tu[ref.idx]

\* foreach ($c in $collabsArray) { $rowsByKey[$key] = $c }: the last one wins.
SeedRows(ca) ==
    LET keys == {KeyOf(ca[i]) : i \in 1..Len(ca)}
        last(k) == CHOOSE i \in 1..Len(ca) :
                      /\ KeyOf(ca[i]) = k
                      /\ \A j \in (i + 1)..Len(ca) : KeyOf(ca[j]) # k
    IN [k \in keys |-> CollabRef(last(k))]

IsNullOrWhiteSpace(s) == s = << >> \/ \A i \in 1..Len(s) : s[i] = " "

\* $rowsByKey[$key] = $t
PutTeamRow(st, key, j) ==
    [st EXCEPT !.rowsByKey =
        [k \in DOMAIN st.rowsByKey \cup {key} |->
            IF k = key THEN TeamRef(j) ELSE st.rowsByKey[k]]]

\* $rowsByKey[$key].viaTeam += ",$($t.viaTeam)": the row object in place is changed.
AppendViaTeam(st, key, t) ==
    LET ref == st.rowsByKey[key]
    IN IF ref.arr = "collabs"
       THEN [st EXCEPT !.collabsArray[ref.idx].viaTeam = @ \o <<",">> \o t.viaTeam]
       ELSE [st EXCEPT !.teamUserRepoPerms[ref.idx].viaTeam = @ \o <<",">> \o t.viaTeam]

CurIdx(st, key) ==
    IndexOf(order, Deref(st.rowsByKey[key], st.collabsArray, st.teamUserRepoPerms).permission)

\* FoldRow with -ge for -gt: a tie replaces the row in place.
FoldRow_ReplaceOnTie(st, j) ==
    LET t == st.teamUserRepoPerms[j]
        key == KeyOf(t)
        teamIdx == IndexOf(order, t.permission)
    IN IF key \in DOMAIN st.rowsByKey
       THEN IF teamIdx >= CurIdx(st, key) THEN PutTeamRow(st, key, j)
            ELSE st
       ELSE PutTeamRow(st, key, j)

\* FoldRow without the elseif branch: a tie leaves the row as it is.
FoldRow_TieIgnored(st, j) ==
    LET t == st.teamUserRepoPerms[j]
        key == KeyOf(t)
        teamIdx == IndexOf(order, t.permission)
    IN IF key \in DOMAIN st.rowsByKey
       THEN IF teamIdx > CurIdx(st, key) THEN PutTeamRow(st, key, j)
            ELSE st
       ELSE PutTeamRow(st, key, j)

\* FoldRow with -le for -eq in the elseif: a lower team is recorded too.
FoldRow_AppendOnLower(st, j) ==
    LET t == st.teamUserRepoPerms[j]
        key == KeyOf(t)
        teamIdx == IndexOf(order, t.permission)
    IN IF key \in DOMAIN st.rowsByKey
       THEN IF teamIdx > CurIdx(st, key) THEN PutTeamRow(st, key, j)
            ELSE IF teamIdx <= CurIdx(st, key) /\ ~IsNullOrWhiteSpace(t.viaTeam)
                 THEN AppendViaTeam(st, key, t)
                 ELSE st
       ELSE PutTeamRow(st, key, j)

\* FoldRow without the -gt branch: the row a key got first stays.
FoldRow_FirstStays(st, j) ==
    LET t == st.teamUserRepoPerms[j]
        key == KeyOf(t)
        teamIdx == IndexOf(order, t.permission)
    IN IF key \in DOMAIN st.rowsByKey
       THEN IF teamIdx = CurIdx(st, key) /\ ~IsNullOrWhiteSpace(t.viaTeam)
            THEN AppendViaTeam(st, key, t)
            ELSE st
       ELSE PutTeamRow(st, key, j)

\* One iteration of foreach ($t in $teamUserRepoPerms) on the merge state
\* st = [rowsByKey, collabsArray, teamUserRepoPerms].
FoldRow(st, j) ==
    LET t == st.teamUserRepoPerms[j]
        key == KeyOf(t)
        teamIdx == IndexOf(order, t.permission)
    IN IF key \in DOMAIN st.rowsByKey
       THEN IF teamIdx > CurIdx(st, key) THEN PutTeamRow(st, key, j)
            ELSE IF teamIdx = CurIdx(st, key) /\ ~IsNullOrWhiteSpace(t.viaTeam)
                 THEN AppendViaTeam(st, key, t)
                 ELSE st
       ELSE PutTeamRow(st, key, j)

RECURSIVE FoldFrom(_, _)
FoldFrom(st, j) ==
    IF j > Len(st.teamUserRepoPerms) THEN st ELSE FoldFrom(FoldRow(st, j), j + 1)

-----------------------------------------------------------------------------
(* part_000 steps 9 (Values), 11, 12 and 13 *)

\* Values that lists every row once more.
Enumerations_Repeated(f) ==
    LET n == Cardinality(DOMAIN f)
    IN {[i \in 1..(2 * n) |-> f[ks[((i - 1) % n) + 1]]] :
            ks \in {s \in [1..n -> DOMAIN f] : \A a, b \in 1..n : a # b => s[a] # s[b]}}

\* $rowsByKey.Values: every value once, in an order the hashtable chooses.
Enumerations(f) ==
    LET n == Cardinality(DOMAIN f)
    IN {[i \in 1..n |-> f[ks[i]]] :
            ks \in {s \in [1..n -> DOMAIN f] : \A a, b \in 1..n : a # b => s[a] # s[b]}}

\* FilterRows comparing with $Permission case-sensitively (-ceq) instead of $permKey.
FilterRows_CaseSensitive(P, rows, ca, tu) ==
    LET keep(ref) == Deref(ref, ca, tu).permission = P
    IN IF P # "ALL" THEN SelectSeq(rows, keep) ELSE rows

FilterRows(P, rows, ca, tu) ==
    LET keep(ref) == Deref(ref, ca, tu).permission = ToLower(P)
    IN IF P # "ALL" THEN SelectSeq(rows, keep) ELSE rows

\* Rank of a repository name in the order Sort-Object compares strings by
\* default: case is ignored, so "alpha" sorts before "Beta".
NameRank(name) == IndexOf(<<"alpha", "Beta", "r1", "r2", "r3">>, name)

\* Sort-Object orgRepo, as an insertion sort that keeps equal names in input order.
RECURSIVE InsertByRepo(_, _)
InsertByRepo(sorted, r) ==
    IF sorted = << >> THEN <<r>>
    ELSE IF NameRank(Head(sorted).orgRepo) <= NameRank(r.orgRepo)
         THEN <<Head(sorted)>> \o InsertByRepo(Tail(sorted), r)
         ELSE <<r>> \o sorted

RECURSIVE SortByRepo(_)
SortByRepo(rows) ==
    IF rows = << >> THEN << >>
    ELSE InsertByRepo(SortByRepo(SubSeq(rows, 1, Len(rows) - 1)), rows[Len(rows)])

-----------------------------------------------------------------------------
(* part_000: the snapshot the API serves *)

\* Roles that grants of the snapshot are drawn from.
DirectRoles == {"read", "write", "admin"}
TeamRoles == {"read", "write", "admin"}

\* A collaborator as the collaborators endpoint lists it.
DirectLogins == {"u1"}
CollabEntries ==
    {[login |-> l, permissions |-> RoleFlags[r]] : l \in DirectLogins, r \in DirectRoles}

\* Member lists of a team (each member once).
MemberLists == {<<"u1">>, <<"u1", "u2">>}

TeamEntries(slug) ==
    {[slug |-> slug,
      repos |-> <<[name |-> RepoNames[1], permissions |-> RoleFlags[r]]>>,
      members |-> ms] : r \in TeamRoles, ms \in MemberLists}

TeamSnapshots ==
    UNION {{s \in [1..n -> UNION {TeamEntries(TeamSlugs[i]) : i \in 1..n}] :
                \A i \in 1..n : s[i].slug = TeamSlugs[i]} : n \in 0..MaxTeams}

\* Enumeration orders of the keys of $permissionDisplay, a hashtable: the runtime
\* chooses the order.  The loop of step 8 depends on the order only through the
\* true flag that comes last, and the collaborators of the snapshot carry the
\* bundles of read, write and admin: one order for every pair (last of pull,
\* triage and push; last of the five).
KeyOrders ==
    {<<"admin", "maintain", "push", "triage", "pull">>,
     <<"triage", "push", "pull", "admin", "maintain">>,
     <<"push", "triage", "pull", "maintain", "admin">>,
     <<"admin", "maintain", "pull", "push", "triage">>,
     <<"pull", "push", "triage", "admin", "maintain">>,
     <<"pull", "push", "triage", "maintain", "admin">>,
     <<"admin", "maintain", "pull", "triage", "push">>,
     <<"pull", "triage", "push", "admin", "maintain">>,
     <<"pull", "triage", "push", "maintain", "admin">>}

-----------------------------------------------------------------------------
(* part_000: the run *)

NormIdle ==
    /\ normPermission = "ALL"
    /\ normFlags = {}
    /\ normOrder = << >>
    /\ directPerm = ""
    /\ matchedPermission = ""
    /\ teamPermission = << >>
    /\ normErrors = 0
    /\ legacyRows = << >>
    /\ normPc = "idle"

PageIdle ==
    /\ pageStyle = "none"
    /\ nItems = 0
    /\ page = 1
    /\ endCursor = 0
    /\ collected = << >>
    /\ requests = 0
    /\ chain = << >>
    /\ sentCursors = << >>
    /\ pagePc = "idle"

JsIdle ==
    /\ rolePermission = "ADMIN"
    /\ jsCollabsApi = << >>
    /\ jsMembersApi = << >>
    /\ jsCollabsArray = << >>
    /\ memberArray = << >>
    /\ mergeArray = << >>
    /\ sortArray = << >>
    /\ jsFailed = FALSE
    /\ jsPc = "idle"

NoReading == [known |-> FALSE, remaining |-> 0, reset |-> 0]

CallIdle ==
    /\ callStyle = "none"
    /\ retryCount = 0
    /\ errKind = "none"
    /\ failTimes = 0
    /\ quotaFails = FALSE
    /\ ci = 0
    /\ attempts = 0
    /\ sleepLog = << >>
    /\ outcome = "none"
    /\ now = 0
    /\ rateInfo = NoReading
    /\ gateChecked = FALSE
    /\ headers = "none"
    /\ callPc = "idle"

RunIdle ==
    /\ runProgram = "none"
    /\ fault = "none"
    /\ saml = FALSE
    /\ fetchNames = FALSE
    /\ jsonOut = FALSE
    /\ nameFails = {}
    /\ emailFails = {}
    /\ grants = << >>
    /\ runRows = << >>
    /\ runEmails = << >>
    /\ runMembers = << >>
    /\ verifiedHash = << >>
    /\ nameRequests = << >>
    /\ runStarted = {}
    /\ csvWritten = FALSE
    /\ jsonWritten = FALSE
    /\ reportRows = << >>
    /\ runFailed = FALSE
    /\ runPc = "idle"

PipeIdle ==
    /\ Permission = "ALL"
    /\ keysOrder = << >>
    /\ teamsApi = << >>
    /\ collabsApi = << >>
    /\ repos = << >>
    /\ teamRepoPerms = << >>
    /\ teamMembers = << >>
    /\ teamUserRepoPerms = << >>
    /\ collabsArray = << >>
    /\ rowsByKey = << >>
    /\ allRows = << >>
    /\ csvRows = << >>
    /\ pending = {}
    /\ ri = 1
    /\ ti = 1
    /\ pc = "idle"

Init ==
    /\ RunIdle
    /\ CallIdle
    /\ NormIdle
    /\ PageIdle
    /\ JsIdle
    /\ Permission \in PermissionInputs
    /\ keysOrder \in KeyOrders
    /\ teamsApi \in TeamSnapshots
    /\ collabsApi \in [Range(RepoNames) -> SeqsUpTo(CollabEntries, MaxCollabs)]
    /\ repos = RepoNames
    /\ teamRepoPerms = << >>
    /\ teamMembers = << >>
    /\ teamUserRepoPerms = << >>
    /\ collabsArray = << >>
    /\ rowsByKey = << >>
    /\ allRows = << >>
    /\ csvRows = << >>
    /\ pending = {}
    /\ ri = 1
    /\ ti = 1
    /\ pc = "step6"

Step6 ==
    /\ pc = "step6"
    /\ teamRepoPerms' = BuildTeamRepoPerms(teamsApi)
    /\ teamMembers' = BuildTeamMembers(teamsApi)
    /\ pc' = "step7"
    /\ UNCHANGED <<Permission, keysOrder, teamsApi, collabsApi, repos,
                   teamUserRepoPerms, collabsArray, rowsByKey, allRows, csvRows, ri, ti>>
    /\ UNCHANGED pending
    /\ UNCHANGED <<normVars, pageVars, jsVars, callVars, runVars>>

Step7 ==
    /\ pc = "step7"
    /\ teamUserRepoPerms' = BuildTeamUserRepoPerms(teamRepoPerms, teamMembers)
    /\ pc' = "step8"
    /\ UNCHANGED <<Permission, keysOrder, teamsApi, collabsApi, repos, teamRepoPerms,
                   teamMembers, collabsArray, rowsByKey, allRows, csvRows, ri, ti>>
    /\ UNCHANGED pending
    /\ UNCHANGED <<normVars, pageVars, jsVars, callVars, runVars>>

\* One iteration of foreach ($repo in $repos).  With -FetchNames every collaborator
\* costs a profile request: Get-GitHubUserName has no catch, so a request that
\* fails for good ends the script with the rows built before it.
Step8Repo ==
    /\ pc = "step8"
    /\ ri <= Len(repos)
    /\ \/ /\ collabsArray' = collabsArray \o
                  CollabRows(Permission, keysOrder, repos[ri], collabsApi[repos[ri]])
          /\ ri' = ri + 1
          /\ pc' = pc
       \/ /\ fetchNames
          /\ \E k \in 1..Len(collabsApi[repos[ri]]) :
                collabsArray' = collabsArray \o
                    CollabRows(Permission, keysOrder, repos[ri],
                               SubSeq(collabsApi[repos[ri]], 1, k - 1))
          /\ ri' = ri
          /\ pc' = "aborted"
    /\ UNCHANGED <<Permission, keysOrder, teamsApi, collabsApi, repos, teamRepoPerms,
                   teamMembers, teamUserRepoPerms, rowsByKey, allRows, csvRows, ti>>
    /\ UNCHANGED pending
    /\ UNCHANGED <<normVars, pageVars, jsVars, callVars, runVars>>

\* foreach ($repo in $repos) has run its last iteration: the statement after the
\* loop, step 9, is reached only then.
TraversalsDone_Early(i, rs) == TRUE

TraversalsDone(i, rs) == i > Len(rs)

Step9Seed ==
    /\ pc = "step8"
    /\ TraversalsDone(ri, repos)
    /\ rowsByKey' = SeedRows(collabsArray)
    /\ ti' = 1
    /\ pc' = "step9"
    /\ UNCHANGED <<Permission, keysOrder, teamsApi, collabsApi, repos, teamRepoPerms,
                   teamMembers, teamUserRepoPerms, collabsArray, allRows, csvRows, ri>>
    /\ UNCHANGED pending
    /\ UNCHANGED <<normVars, pageVars, jsVars, callVars, runVars>>

MergeState ==
    [rowsByKey |-> rowsByKey, collabsArray |-> collabsArray,
     teamUserRepoPerms |-> teamUserRepoPerms]

\* One iteration of foreach ($t in $teamUserRepoPerms).
Step9Fold ==
    /\ pc = "step9"
    /\ ti <= Len(teamUserRepoPerms)
    /\ LET st == FoldRow(MergeState, ti)
       IN /\ rowsByKey' = st.rowsByKey
          /\ collabsArray' = st.collabsArray
          /\ teamUserRepoPerms' = st.teamUserRepoPerms
    /\ ti' = ti + 1
    /\ UNCHANGED <<Permission, keysOrder, teamsApi, collabsApi, repos, teamRepoPerms,
                   teamMembers, allRows, csvRows, ri, pc>>
    /\ UNCHANGED pending
    /\ UNCHANGED <<normVars, pageVars, jsVars, callVars, runVars>>

Step9Values ==
    /\ pc = "step9"
    /\ ti > Len(teamUserRepoPerms)
    /\ allRows' \in Enumerations(rowsByKey)
    /\ pc' = "step11"
    /\ UNCHANGED <<Permission, keysOrder, teamsApi, collabsApi, repos, teamRepoPerms,
                   teamMembers, teamUserRepoPerms, collabsArray, rowsByKey, csvRows, ri, ti>>
    /\ UNCHANGED pending
    /\ UNCHANGED <<normVars, pageVars, jsVars, callVars, runVars>>

\* if (-not $row.name -or $row.name -eq "") { $row.name = Get-GitHubUserName
\* $row.login }: the row object the reference points to gets the profile name.
NameRow(st, ref) ==
    IF ref.arr = "collabs"
    THEN [st EXCEPT !.collabsArray[ref.idx].name =
             IF @ = "" THEN ProfileNameOf[st.collabsArray[ref.idx].login] ELSE @]
    ELSE [st EXCEPT !.teamUserRepoPerms[ref.idx].name =
             IF @ = "" THEN ProfileNameOf[st.teamUserRepoPerms[ref.idx].login] ELSE @]

\* foreach ($row in $allRows) of step 11 over the rows i..last.
RECURSIVE MergeNames(_, _, _, _)
MergeNames(st, rows, i, last) ==
    IF i > last THEN st ELSE MergeNames(NameRow(st, rows[i]), rows, i + 1, last)

\* Steps 10 and 11: the emails are merged into fields the rows of this run do not
\* carry; every row without a name costs a profile request, whatever -FetchNames
\* says.  Get-GitHubUserName has no catch: the request of row k that fails for
\* good ends the script after the rows before it, and nothing is exported.
Step11 ==
    /\ pc = "step11"
    /\ \E k \in 1..(Len(allRows) + 1) :
          LET st == MergeNames(MergeState, allRows, 1, k - 1)
          IN /\ k <= Len(allRows) =>
                    Deref(allRows[k], st.collabsArray, st.teamUserRepoPerms).name = ""
             /\ collabsArray' = st.collabsArray
             /\ teamUserRepoPerms' = st.teamUserRepoPerms
             /\ pc' = IF k <= Len(allRows) THEN "aborted" ELSE "step12"
    /\ UNCHANGED <<Permission, keysOrder, teamsApi, collabsApi, repos, teamRepoPerms,
                   teamMembers, rowsByKey, allRows, csvRows, ri, ti>>
    /\ UNCHANGED pending
    /\ UNCHANGED <<normVars, pageVars, jsVars, callVars, runVars>>

Step12 ==
    /\ pc = "step12"
    /\ allRows' = FilterRows(Permission, allRows, collabsArray, teamUserRepoPerms)
    /\ pc' = "step13"
    /\ UNCHANGED <<Permission, keysOrder, teamsApi, collabsApi, repos, teamRepoPerms,
                   teamMembers, teamUserRepoPerms, collabsArray, rowsByKey, csvRows, ri, ti>>
    /\ UNCHANGED pending
    /\ UNCHANGED <<normVars, pageVars, jsVars, callVars, runVars>>

Step13 ==
    /\ pc = "step13"
    /\ csvRows' = SortByRepo([i \in 1..Len(allRows) |->
                                 Deref(allRows[i], collabsArray, teamUserRepoPerms)])
    /\ pc' = "done"
    /\ UNCHANGED <<Permission, keysOrder, teamsApi, collabsApi, repos, teamRepoPerms,
                   teamMembers, teamUserRepoPerms, collabsArray, rowsByKey, allRows, ri, ti>>
    /\ UNCHANGED pending
    /\ UNCHANGED <<normVars, pageVars, jsVars, callVars, runVars>>

Next ==
    \/ Step6
    \/ Step7
    \/ Step8Repo
    \/ Step9Seed
    \/ Step9Fold
    \/ Step9Values
    \/ Step11
    \/ Step12
    \/ Step13

Spec == Init /\ [][Next]_vars

-----------------------------------------------------------------------------
(* Grants of the snapshot, for the statements below *)

Level(p) == IndexOf(order, p)

Max(S) == CHOOSE x \in S : \A y \in S : y <= x

\* Level of the highest role among the true flags of a bundle (-1: no true flag).
HighestLevel(permissions) ==
    IF permissions \cap DOMAIN permissionDisplay = {} THEN -1
    ELSE Max({Level(permissionDisplay[f]) : f \in permissions \cap DOMAIN permissionDisplay})

\* The listing of every repo names each login at most once.
ListingsWellFormed ==
    \A r \in DOMAIN collabsApi :
        \A i, j \in 1..Len(collabsApi[r]) :
            i # j => collabsApi[r][i].login # collabsApi[r][j].login

\* The direct grant of (r, u): the entries the listing returns for u, each at the
\* level step 8 reads from its flags.
DirectGrantLevels(r, u) ==
    {Level(DirectPerm(c.permissions, keysOrder)) :
        c \in {x \in Range(collabsApi[r]) : x.login = u}} \ {-1}

\* The teams that grant on r and have u as a member, each with the level it grants.
TeamGrants(r, u) ==
    UNION {{[team |-> teamsApi[t].slug,
             level |-> HighestLevel(teamsApi[t].repos[g].permissions)] :
                g \in {y \in 1..Len(teamsApi[t].repos) : teamsApi[t].repos[y].name = r}} :
           t \in {x \in 1..Len(teamsApi) : u \in Range(teamsApi[x].members)}}

GrantLevels(r, u) == DirectGrantLevels(r, u) \cup {g.level : g \in TeamGrants(r, u)}

RowOf(key) == Deref(rowsByKey[key], collabsArray, teamUserRepoPerms)

\* The team slugs a viaTeam string lists.
Slugs(viaTeam) == {viaTeam[i] : i \in {j \in 1..Len(viaTeam) : viaTeam[j] # ","}}

SlugCount(viaTeam, slug) == Cardinality({i \in 1..Len(viaTeam) : viaTeam[i] = slug})

Merged == pc \in {"step11", "step12", "step13", "done"}

\* The run of steps 6-12 for a requested permission P on the snapshot, as one
\* computation: the (repo, login, permission) triples of the rows left after step 12.
MergeOf(P) ==
    LET tu == BuildTeamUserRepoPerms(BuildTeamRepoPerms(teamsApi), BuildTeamMembers(teamsApi))
        ca == Flatten([i \in 1..Len(repos) |->
                          CollabRows(P, keysOrder, repos[i], collabsApi[repos[i]])])
    IN FoldFrom([rowsByKey |-> SeedRows(ca), collabsArray |-> ca, teamUserRepoPerms |-> tu], 1)

Triple(row) == <<row.orgRepo, row.login, row.permission>>

ReportOf(P) ==
    LET st == MergeOf(P)
        rows == {Deref(st.rowsByKey[k], st.collabsArray, st.teamUserRepoPerms) :
                    k \in DOMAIN st.rowsByKey}
    IN {Triple(r) : r \in {x \in rows : P = "ALL" \/ x.permission = ToLower(P)}}

\* The stepwise run and the one-shot computation agree.
RunMatchesReportOf ==
    pc = "done" => {Triple(csvRows[i]) : i \in 1..Len(csvRows)} = ReportOf(Permission)

-----------------------------------------------------------------------------
(* C1: for every (repo, login) of the reconciled row set, the row's permission is *)
(* the maximum over the direct grant and the grants of the login's teams, for     *)
(* every requested permission (stated for listings that name a login once).       *)
(* The code does not satisfy this: step 8 drops the direct rows that differ from   *)
(* the requested permission before the merge.                                      *)
C1_MaxPermission ==
    (Merged /\ ListingsWellFormed) => \A key \in DOMAIN rowsByKey :
                 /\ GrantLevels(key[1], key[2]) # {}
                 /\ Level(RowOf(key).permission) = Max(GrantLevels(key[1], key[2]))

(* C2: for a requested level L other than ALL the output rows are exactly the   *)
(* rows of the ALL report whose permission is L (stated for listings that name  *)
(* a login once).  The code does not satisfy this: step 8 filters the direct    *)
(* rows before the merge.                                                       *)
C2_FilterAfterMerge ==
    (pc = "done" /\ Permission # "ALL" /\ ListingsWellFormed) =>
        {Triple(csvRows[i]) : i \in 1..Len(csvRows)} =
            {t \in ReportOf("ALL") : t[3] = permKey}

\* A login with a direct read grant and a team-derived admin grant on r.
DirectReadTeamAdmin(r, u) ==
    /\ \E i \in 1..Len(collabsApi[r]) :
          collabsApi[r][i].login = u /\ collabsApi[r][i].permissions = RoleFlags.read
    /\ \E g \in TeamGrants(r, u) : g.level = Level("admin")

(* C3: with permission=ADMIN requested, a user with a direct read grant and a  *)
(* team-derived admin grant on the same repository is in the report, as admin. *)
C3_AdminSurfaces ==
    (pc = "done" /\ Permission = "ADMIN") =>
        \A r \in Range(repos), u \in Logins :
            DirectReadTeamAdmin(r, u) =>
                \E i \in 1..Len(csvRows) : Triple(csvRows[i]) = <<r, u, "admin">>

C3_Witness ==
    /\ pc = "done"
    /\ Permission = "ADMIN"
    /\ \E r \in Range(repos), u \in Logins :
          /\ DirectReadTeamAdmin(r, u)
          /\ \E i \in 1..Len(csvRows) : Triple(csvRows[i]) = <<r, u, "admin">>

\* The team row step 9 folds next, its key, and how it compares with the row in place.
FoldPending == pc = "step9" /\ ti <= Len(teamUserRepoPerms)
NextTeamRow == teamUserRepoPerms[ti]
NextKeyPresent == KeyOf(NextTeamRow) \in DOMAIN rowsByKey
NextTeamIdx == Level(NextTeamRow.permission)
NextCurIdx == Level(RowOf(KeyOf(NextTeamRow)).permission)

(* C5: once every team row is folded, the viaTeam of each row lists exactly the  *)
(* teams whose grant for that (repo, login) is the row's permission, each once.  *)
C5_ViaTeamsExact ==
    Merged => \A key \in DOMAIN rowsByKey :
        LET row == RowOf(key)
            winners == {g.team : g \in {x \in TeamGrants(key[1], key[2]) :
                                            x.level = Level(row.permission)}}
        IN /\ Slugs(row.viaTeam) = winners
           /\ \A s \in winners : SlugCount(row.viaTeam, s) = 1

\* Two teams granted the winning level of a row and both are listed.
C5_Witness ==
    /\ Merged
    /\ \E key \in DOMAIN rowsByKey :
          /\ Cardinality(Slugs(RowOf(key).viaTeam)) = 2
          /\ Cardinality(TeamGrants(key[1], key[2])) = 2

(* C6: folding a team row into a key whose row has the same permission leaves  *)
(* that row in place (same object, same permission, a direct row stays the     *)
(* direct row) and appends the team's slug to its viaTeam.                     *)
C6_TieKeepsRow ==
    [][(FoldPending /\ NextKeyPresent /\ NextTeamIdx = NextCurIdx) =>
          LET key == KeyOf(NextTeamRow)
              before == RowOf(key)
              after == Deref(rowsByKey'[key], collabsArray', teamUserRepoPerms')
          IN /\ rowsByKey' = rowsByKey
             /\ after.permission = before.permission
             /\ after.viaTeam = before.viaTeam \o <<",">> \o NextTeamRow.viaTeam
             /\ after = [before EXCEPT !.viaTeam = after.viaTeam]
      ]_vars

\* A direct row that a team tied with: still the row of its key, with the slug added.
C6_Witness ==
    /\ pc = "step9"
    /\ ti > 1
    /\ LET t == teamUserRepoPerms[ti - 1]
           key == KeyOf(t)
       IN /\ key \in DOMAIN rowsByKey
          /\ rowsByKey[key].arr = "collabs"
          /\ RowOf(key).permission = t.permission
          /\ RowOf(key).viaTeam = <<",">> \o t.viaTeam

(* C7: folding a team row whose permission is strictly lower than the row in *)
(* place changes nothing: rows, permissions and viaTeam are as before.       *)
C7_LowerNoChange ==
    [][(FoldPending /\ NextKeyPresent /\ NextTeamIdx < NextCurIdx) =>
          /\ rowsByKey' = rowsByKey
          /\ collabsArray' = collabsArray
          /\ teamUserRepoPerms' = teamUserRepoPerms
      ]_vars

\* A lower team row has been folded into a key whose row recorded a team before.
C7_Witness ==
    /\ pc = "step9"
    /\ ti > 1
    /\ LET t == teamUserRepoPerms[ti - 1]
           key == KeyOf(t)
       IN /\ key \in DOMAIN rowsByKey
          /\ Level(t.permission) < Level(RowOf(key).permission)
          /\ t.viaTeam # RowOf(key).viaTeam
          /\ Slugs(t.viaTeam) \cap Slugs(RowOf(key).viaTeam) = {}

(* C4: the final report holds at most one row for each (repository, login)    *)
(* pair, also for a login with a direct grant and grants of several teams on   *)
(* the repository and for a collaborator the listing returns more than once:   *)
(* step 9 keys its rows by repo and login, and a key holds one row.            *)
C4_OneRowPerPair ==
    /\ Merged => \A i, j \in 1..Len(allRows) :
                    KeyOf(Deref(allRows[i], collabsArray, teamUserRepoPerms))
                      = KeyOf(Deref(allRows[j], collabsArray, teamUserRepoPerms)) => i = j
    /\ pc = "done" => \A i, j \in 1..Len(csvRows) :
                         KeyOf(csvRows[i]) = KeyOf(csvRows[j]) => i = j

\* A report with one row for u1, whom the listing returned twice and two teams
\* grant the repository.
C4_Witness ==
    /\ pc = "done"
    /\ Len(collabsApi["r1"]) = 2
    /\ Len(teamsApi) = 2
    /\ Cardinality({i \in 1..Len(csvRows) : csvRows[i].login = "u1"}) = 1

-----------------------------------------------------------------------------
(* The normalizers, one collaborator at a time *)

KeyPermutations(S) ==
    LET n == Cardinality(S)
    IN {s \in [1..n -> S] : \A a, b \in 1..n : a # b => s[a] # s[b]}

\* Get-GitHubOrgRepoCollaborators.ps1, -Permission ALL: the name of the first true
\* property of $collab.permissions, in the order the object lists them (break).
RECURSIVE FirstTrueName(_, _, _)
FirstTrueName(permissions, props, i) ==
    IF i > Len(props) THEN ""
    ELSE IF props[i] \in permissions THEN props[i]
    ELSE FirstTrueName(permissions, props, i + 1)

\* $permissions.PSObject.Properties: the five flags in the order the object lists
\* them, and the flag the tables do not know when the object carries it.
PropertiesOf(permissions, props) ==
    props \o (IF "custom" \in permissions THEN <<"custom">> ELSE << >>)

\* $matchedPermission; $permissions.$permKey is true only for a flag of that name.
MatchedPermission(P, permissions, props) ==
    IF P = "ALL" THEN FirstTrueName(permissions, props, 1)
    ELSE IF ToLower(P) \in permissions THEN ToLower(P) ELSE ""

\* if ($matchedPermission) { $collabsArray += ... permission = $matchedPermission }
LegacyRows(repoName, login, matched) ==
    IF matched # ""
    THEN <<[orgRepo |-> repoName, login |-> login, permission |-> matched]>>
    ELSE << >>

\* $permissionDisplay[$key] for a key that is a string: the value, or $null (which
\* a row carries as the empty permission) when the table has no such key.
DisplayOf(key) ==
    IF key \in DOMAIN permissionDisplay THEN permissionDisplay[key] ELSE ""

\* $permissions = @($trp.permission): the true flag names.  When no flag is true
\* the pipeline of step 6 has no output, and what the property holds then is left
\* to the runtime: nothing, so that @(...) is an empty array and the loop over
\* $permissions has no pass, or $null, so that @($null) is an array of one
\* element.
NullKey == "$null"

Unrolled(fl, empty) ==
    IF fl # << >> THEN fl
    ELSE IF empty = "nothing" THEN << >> ELSE <<NullKey>>

\* The outcomes of a bundle with no true flag: no pass of the loop, or one pass in
\* which $permissionDisplay[$null] either fails with "the array index evaluated
\* to null", a statement-terminating error that leaves the += of the row undone
\* and lets the script go on, or evaluates to $null.
NullIndexOutcomes == {"nothing", "error", "null"}

\* The permission of the rows step 7 builds for one grant and one member: one per
\* element of $permissions.
TeamPermissions(permissions, nullIndex) ==
    LET ps == Unrolled(TeamFlagList(permissions), nullIndex)
        kept(k) == k # NullKey \/ nullIndex = "null"
        ks == SelectSeq(ps, kept)
    IN [i \in 1..Len(ks) |-> IF ks[i] = NullKey THEN "" ELSE DisplayOf(ks[i])]

\* The error records step 7 writes for one grant and one member.
TeamErrors(permissions, nullIndex) ==
    LET ps == Unrolled(TeamFlagList(permissions), nullIndex)
        failed(k) == k = NullKey /\ nullIndex = "error"
    IN Len(SelectSeq(ps, failed))

NormInit ==
    /\ RunIdle
    /\ CallIdle
    /\ PipeIdle
    /\ PageIdle
    /\ JsIdle
    /\ normPermission \in PermissionInputs
    /\ normFlags \in {RoleFlags[r] : r \in DOMAIN RoleFlags} \cup {{}}
    /\ normOrder \in KeyPermutations(FlagNames)
    /\ directPerm = ""
    /\ matchedPermission = ""
    /\ teamPermission = << >>
    /\ normErrors = 0
    /\ legacyRows = << >>
    /\ normPc = "directPerm"

NormDirectPerm ==
    /\ normPc = "directPerm"
    /\ directPerm' = DirectPerm(normFlags, normOrder)
    /\ normPc' = "matchedPermission"
    /\ UNCHANGED <<normPermission, normFlags, normOrder, matchedPermission,
                   teamPermission, normErrors, legacyRows>>
    /\ UNCHANGED <<pipeVars, pageVars, jsVars, callVars, runVars>>

NormMatchedPermission ==
    /\ normPc = "matchedPermission"
    /\ matchedPermission' = MatchedPermission(normPermission, normFlags,
                                              PropertiesOf(normFlags, normOrder))
    /\ legacyRows' = LegacyRows("r1", "u1", matchedPermission')
    /\ normPc' = "teamPermission"
    /\ UNCHANGED <<normPermission, normFlags, normOrder, directPerm, teamPermission,
                   normErrors>>
    /\ UNCHANGED <<pipeVars, pageVars, jsVars, callVars, runVars>>

NormTeamPermission ==
    /\ normPc = "teamPermission"
    /\ \E nullIndex \in NullIndexOutcomes :
          /\ teamPermission' = TeamPermissions(normFlags, nullIndex)
          /\ normErrors' = TeamErrors(normFlags, nullIndex)
    /\ normPc' = "done"
    /\ UNCHANGED <<normPermission, normFlags, normOrder, directPerm, matchedPermission,
                   legacyRows>>
    /\ UNCHANGED <<pipeVars, pageVars, jsVars, callVars, runVars>>

NormNext ==
    \/ NormDirectPerm
    \/ NormMatchedPermission
    \/ NormTeamPermission

SpecNorm == NormInit /\ [][NormNext]_vars

HighestRole(permissions) == order[HighestLevel(permissions) + 1]

(* C8: for a flag bundle with several true flags, normalization returns the   *)
(* highest level among the true flags, whatever the order the flags are       *)
(* enumerated in.  The code does not satisfy this: $directPerm is the flag    *)
(* enumerated last, $matchedPermission the one enumerated first.              *)
C8_HighestFlag ==
    (normPc = "done" /\ normFlags # {}) =>
        /\ directPerm = HighestRole(normFlags)
        /\ normPermission = "ALL" =>
              permissionDisplay[matchedPermission] = HighestRole(normFlags)

(* C9: every row has a permission among read, triage, write, maintain, admin;  *)
(* pull, push and the empty permission never reach the output.  The code does  *)
(* not satisfy this: Get-GitHubOrgRepoCollaborators.ps1 writes the flag name.  *)
C9_CanonicalPermission ==
    normPc = "done" =>
        /\ \A i \in 1..Len(legacyRows) : legacyRows[i].permission \in Range(order)
        /\ \A i \in 1..Len(teamPermission) : teamPermission[i] \in Range(order)
        /\ KeepDirect(normPermission, directPerm) => directPerm \in Range(order)

\* part_000 alone keeps to the five values, in the rows it builds and in its output.
Part000Canonical ==
    /\ \A i \in 1..Len(collabsArray) : collabsArray[i].permission \in Range(order)
    /\ \A i \in 1..Len(teamUserRepoPerms) : teamUserRepoPerms[i].permission \in Range(order)
    /\ \A i \in 1..Len(csvRows) : csvRows[i].permission \in Range(order)

-----------------------------------------------------------------------------
(* Paged traversals over a source of nItems items, numbered 1..nItems *)

MaxItems == 250

\* per_page=100 of the repository listing, first: 50 of membersWithRole,
\* perPage = 20 of repoNames.
RestPerPage == 100
MembersFirst == 50
JsPerPage == 20

PageStyles == {"rest", "cursor", "js"}

Min(a, b) == IF a < b THEN a ELSE b

\* Items lo..hi of the source, in order.
Items(lo, hi) == [i \in 1..(IF hi >= lo THEN hi - lo + 1 ELSE 0) |-> lo + i - 1]

\* The body of GET ...?per_page=perPage&page=pg for a source of n items.
RestPage(n, perPage, pg) == Items((pg - 1) * perPage + 1, Min(pg * perPage, n))

\* The connection served for (first: first, after: after); cursor 0 is null and
\* cursor k is the cursor of item k.
CursorPage(n, first, after) ==
    LET hi == Min(after + first, n)
    IN [edges |-> Items(after + 1, hi),
        hasNextPage |-> hi < n,
        endCursor |-> IF hi > after THEN hi ELSE 0]

\* while ($resp.Count -eq 100)
RestMore(resp) == Len(resp) = RestPerPage

PageInit ==
    /\ RunIdle
    /\ CallIdle
    /\ PipeIdle
    /\ NormIdle
    /\ JsIdle
    /\ pageStyle \in PageStyles
    /\ nItems \in 0..MaxItems
    /\ page = 1
    /\ endCursor = 0
    /\ collected = << >>
    /\ requests = 0
    /\ chain = << >>
    /\ sentCursors = << >>
    /\ pagePc = "fetch"

\* part_000 step 2, one iteration of the do/while.
RestFetch ==
    /\ pageStyle = "rest"
    /\ pagePc = "fetch"
    /\ LET resp == RestPage(nItems, RestPerPage, page)
       IN /\ collected' = IF Len(resp) > 0 THEN collected \o resp ELSE collected
          /\ pagePc' = IF RestMore(resp) THEN "fetch" ELSE "done"
    /\ page' = page + 1
    /\ requests' = requests + 1
    /\ UNCHANGED <<chain, sentCursors, pageStyle, nItems, endCursor>>
    /\ UNCHANGED <<pipeVars, normVars, jsVars, callVars, runVars>>

\* part_000 step 4, one iteration of the do/while.
CursorFetch ==
    /\ pageStyle = "cursor"
    /\ pagePc = "fetch"
    /\ LET conn == CursorPage(nItems, MembersFirst, endCursor)
       IN /\ collected' = collected \o conn.edges
          /\ endCursor' = conn.endCursor
          /\ pagePc' = IF conn.hasNextPage THEN "fetch" ELSE "done"
    /\ requests' = requests + 1
    /\ UNCHANGED <<chain, sentCursors, pageStyle, nItems, page>>
    /\ UNCHANGED <<pipeVars, normVars, jsVars, callVars, runVars>>

\* const sleepMs = getRateLimitSleep(response.headers): index.js defines no
\* function of that name, so the call throws a ReferenceError in the callback of
\* retryWithBackoff once the listing has arrived; the message is not that of a
\* secondary rate limit, and retryWithBackoff throws it again.
getRateLimitSleep(response) == "ReferenceError"

\* index.js repoNames, one iteration of while (morePages): the callback throws
\* after the first listing, the catch of repoNames calls core.setFailed, and no
\* repository is taken from a page.
JsFetch ==
    /\ pageStyle = "js"
    /\ pagePc = "fetch"
    /\ LET reposPage == RestPage(nItems, JsPerPage, page)
       IN IF getRateLimitSleep(reposPage) = "ReferenceError"
          THEN /\ pagePc' = "failed"
               /\ UNCHANGED <<collected, page>>
          ELSE IF Len(reposPage) = 0
          THEN /\ pagePc' = "done"
               /\ UNCHANGED <<collected, page>>
          ELSE /\ collected' = collected \o reposPage
               /\ page' = page + 1
               /\ pagePc' = "fetch"
    /\ requests' = requests + 1
    /\ UNCHANGED <<chain, sentCursors, pageStyle, nItems, endCursor>>
    /\ UNCHANGED <<pipeVars, normVars, jsVars, callVars, runVars>>

PageNext ==
    \/ RestFetch
    \/ CursorFetch
    \/ JsFetch

SpecPage == PageInit /\ [][PageNext]_vars

(* C10: when a traversal of a source of nItems items served without failure  *)
(* ends, it has collected exactly the items 1..nItems, each once and in       *)
(* order, none omitted and none duplicated; this covers an empty source and a *)
(* source whose size is an exact multiple of the page size, for the offset    *)
(* and the cursor traversals.  The Action does not satisfy this: repoNames    *)
(* ends on the ReferenceError of its callback after the first listing and     *)
(* takes no repository.                                                       *)
C10_PagingComplete ==
    pagePc \in {"done", "failed"} => collected = Items(1, nItems)

\* The traversals of part_000 collect every item.
Part000PagingComplete ==
    (pageStyle \in {"rest", "cursor"} /\ pagePc = "done") => collected = Items(1, nItems)

\* repoNames never ends in another way than on the error, after one request.
RepoNamesFailed ==
    pageStyle = "js" =>
        /\ pagePc # "done"
        /\ pagePc = "failed" => (requests = 1 /\ collected = << >>)

\* An offset traversal of 200 items over pages of 100 has ended: two full pages
\* and the empty third page that ends it.
FullPagesDone ==
    /\ pagePc = "done"
    /\ pageStyle = "rest"
    /\ nItems = 2 * RestPerPage
    /\ requests = 3
    /\ Len(collected) = 200

\* The other cases of the statement are reached as well.
CursorMultipleDone ==
    pagePc = "done" /\ pageStyle = "cursor" /\ nItems = 4 * MembersFirst /\ requests = 4

EmptyDone ==
    pagePc = "done" /\ nItems = 0 /\ requests = 1 /\ collected = << >>

PartialDone ==
    pagePc = "done" /\ pageStyle = "rest" /\ nItems = MaxItems /\ requests = 3

-----------------------------------------------------------------------------
(* index.js: the Action (orchestrator, collabRole, membersWithRole,            *)
(* mergeArrays, report)                                                        *)

MaxEdges == 3

\* collaborators(affiliation: $affil, first: 20, after: $cursorID)
JsFirst == 20

\* RepositoryPermission values the snapshot draws from.
JsPermissions == {"READ", "WRITE", "ADMIN"}

JsEdges == [login : Logins, permission : JsPermissions]

JsMemberLists ==
    {<< >>,
     <<[login |-> "u1", role |-> "MEMBER"]>>,
     <<[login |-> "u1", role |-> "ADMIN"]>>,
     <<[login |-> "u1", role |-> "MEMBER"], [login |-> "u2", role |-> "ADMIN"]>>}

\* The GraphQL documents of index.js.  The documents of collabRole, ssoEmail and
\* membersWithRole hold the text "// Reduced page size to 20" inside the query;
\* comments of the GraphQL language start with "#" and "/" starts none of its
\* tokens, so the server answers these documents with a syntax error and no data.
Parses(document) == document \notin {"collabRole", "ssoEmail", "membersWithRole"}

\* The answer to the request of collabRole for (first, after) over the edges of one
\* repository: octokit.graphql throws on the errors of the answer.
EdgesPage(edges, first, after) ==
    LET hi == Min(after + first, Len(edges))
    IN IF Parses("collabRole")
       THEN [errors |-> FALSE,
             edges |-> SubSeq(edges, after + 1, hi),
             hasNextPage |-> hi < Len(edges),
             endCursor |-> IF hi > after THEN hi ELSE 0]
       ELSE [errors |-> TRUE, edges |-> << >>, hasNextPage |-> FALSE, endCursor |-> 0]

\* The push of collabRole: role.permission === rolePermission, or rolePermission 'ALL'.
KeepRole(rp, role) == role.permission = rp \/ rp = "ALL"

RECURSIVE PushRoles(_, _, _)
PushRoles(repoName, rp, roles) ==
    IF roles = << >> THEN << >>
    ELSE (IF KeepRole(rp, Head(roles))
          THEN <<[orgRepo |-> repoName, login |-> Head(roles).login,
                  permission |-> Head(roles).permission]>>
          ELSE << >>) \o PushRoles(repoName, rp, Tail(roles))

\* collabRole: the do/while over the pages of one repository; endCursor is set
\* inside the loop over the edges of a page.  An answer with errors throws, the
\* catch of collabRole calls core.setFailed, and the array is as it was.
RECURSIVE CollabRole(_, _, _, _, _)
CollabRole(repoName, edges, rp, after, acc) ==
    LET conn == EdgesPage(edges, JsFirst, after)
        cursor == IF Len(conn.edges) > 0
                  THEN (IF conn.hasNextPage THEN conn.endCursor ELSE 0)
                  ELSE after
        pushed == acc \o PushRoles(repoName, rp, conn.edges)
    IN IF conn.errors THEN acc
       ELSE IF conn.hasNextPage
       THEN CollabRole(repoName, edges, rp, cursor, pushed)
       ELSE pushed

\* for (const repo of repos) { await collabRole(...) }: collabRole for every
\* repository of a listing, in order.
RECURSIVE CollabRoleAll(_, _, _, _)
CollabRoleAll(names, api, rp, acc) ==
    IF names = << >> THEN acc
    ELSE CollabRoleAll(Tail(names), api, rp,
                       CollabRole(Head(names), api[Head(names)], rp, 0, acc))

\* A classification that takes no login for a member.
MemberValue_NoMember(members, login) == "OUTSIDE COLLABORATOR"

\* memberArray.find((member) => member.login === login), then the role or the default.
RECURSIVE MemberValue(_, _)
MemberValue(members, login) ==
    IF members = << >> THEN "OUTSIDE COLLABORATOR"
    ELSE IF Head(members).login = login THEN Head(members).role
    ELSE MemberValue(Tail(members), login)

\* mergeArrays: one ssoCollab pushed per element of collabsArray.
MergeArrays(collabs, members) ==
    [i \in 1..Len(collabs) |->
        [orgRepo |-> collabs[i].orgRepo, login |-> collabs[i].login,
         permission |-> collabs[i].permission,
         memberValue |-> MemberValue(members, collabs[i].login)]]

\* Rank of a repository name in the order of the < operator of JavaScript on
\* strings (UTF-16 code units): "B" (66) sorts before "a" (97).
CodeUnitRank(name) == IndexOf(<<"Beta", "alpha", "r1", "r2", "r3">>, name)

RECURSIVE InsertByCodeUnit(_, _)
InsertByCodeUnit(sorted, r) ==
    IF sorted = << >> THEN <<r>>
    ELSE IF CodeUnitRank(Head(sorted).orgRepo) <= CodeUnitRank(r.orgRepo)
         THEN <<Head(sorted)>> \o InsertByCodeUnit(Tail(sorted), r)
         ELSE <<r>> \o sorted

\* arraySort(mergeArray, 'orgRepo'): the default comparison of the property values.
RECURSIVE ArraySort(_)
ArraySort(rows) ==
    IF rows = << >> THEN << >>
    ELSE InsertByCodeUnit(ArraySort(SubSeq(rows, 1, Len(rows) - 1)), rows[Len(rows)])

JsInit ==
    /\ RunIdle
    /\ CallIdle
    /\ PipeIdle
    /\ NormIdle
    /\ PageIdle
    /\ rolePermission \in PermissionInputs
    /\ jsCollabsApi \in [Range(RepoNames) -> SeqsUpTo(JsEdges, MaxEdges)]
    /\ jsMembersApi \in JsMemberLists
    /\ jsCollabsArray = << >>
    /\ memberArray = << >>
    /\ mergeArray = << >>
    /\ sortArray = << >>
    /\ jsFailed = FALSE
    /\ jsPc = "repoNames"

\* repoNames: the callback of the listing throws before a repository is taken
\* (getRateLimitSleep), the catch calls core.setFailed and collabRole is not called.
JsRepoNames ==
    /\ jsPc = "repoNames"
    /\ IF getRateLimitSleep(RepoNames) = "ReferenceError"
       THEN jsCollabsArray' = jsCollabsArray /\ jsFailed' = TRUE
       ELSE /\ jsCollabsArray' =
                  CollabRoleAll(RepoNames, jsCollabsApi, rolePermission, jsCollabsArray)
            /\ jsFailed' = (jsFailed \/ ~Parses("collabRole"))
    /\ jsPc' = "membersWithRole"
    /\ UNCHANGED <<rolePermission, jsCollabsApi, jsMembersApi, memberArray, mergeArray,
                   sortArray>>
    /\ UNCHANGED <<pipeVars, normVars, pageVars, callVars, runVars>>

\* membersWithRole: the answer to its document throws in the first iteration, the
\* catch calls core.setFailed and no member is pushed.
JsMembersWithRole ==
    /\ jsPc = "membersWithRole"
    /\ IF Parses("membersWithRole")
       THEN memberArray' = jsMembersApi /\ UNCHANGED jsFailed
       ELSE memberArray' = memberArray /\ jsFailed' = TRUE
    /\ jsPc' = "mergeArrays"
    /\ UNCHANGED <<rolePermission, jsCollabsApi, jsMembersApi, jsCollabsArray, mergeArray,
                   sortArray>>
    /\ UNCHANGED <<pipeVars, normVars, pageVars, callVars, runVars>>

JsMergeArrays ==
    /\ jsPc = "mergeArrays"
    /\ mergeArray' = MergeArrays(jsCollabsArray, memberArray)
    /\ jsPc' = "report"
    /\ UNCHANGED <<rolePermission, jsCollabsApi, jsMembersApi, jsCollabsArray, memberArray,
                   sortArray, jsFailed>>
    /\ UNCHANGED <<pipeVars, normVars, pageVars, callVars, runVars>>

JsReport ==
    /\ jsPc = "report"
    /\ sortArray' = ArraySort(mergeArray)
    /\ jsPc' = "done"
    /\ UNCHANGED <<rolePermission, jsCollabsApi, jsMembersApi, jsCollabsArray, memberArray,
                   mergeArray, jsFailed>>
    /\ UNCHANGED <<pipeVars, normVars, pageVars, callVars, runVars>>

JsNext ==
    \/ JsRepoNames
    \/ JsMembersWithRole
    \/ JsMergeArrays
    \/ JsReport

SpecAction == JsInit /\ [][JsNext]_vars

\* The Action reports nothing: no collaborator is pushed, no member is pushed, and
\* the run is marked failed.
ActionReportsNothing ==
    /\ jsCollabsArray = << >> /\ memberArray = << >>
    /\ mergeArray = << >> /\ sortArray = << >>
    /\ jsPc \notin {"idle", "repoNames"} => jsFailed

-----------------------------------------------------------------------------
(* Collaborators of one repository: a source of nItems collaborators, 1..nItems *)

\* per_page=100 of the collaborators request, in part_000 and in
\* Get-GitHubOrgRepoCollaborators.ps1.
CollabPerPage == 100
LegacyCollabPerPage == 100

CollabStyles == {"collab", "legacyCollab", "jsCollab"}

CollabPageInit ==
    /\ RunIdle
    /\ CallIdle
    /\ PipeIdle
    /\ NormIdle
    /\ JsIdle
    /\ pageStyle \in CollabStyles
    /\ nItems \in 0..MaxItems
    /\ page = 1
    /\ endCursor = 0
    /\ collected = << >>
    /\ requests = 0
    /\ chain = << >>
    /\ sentCursors = << >>
    /\ pagePc = "fetch"

\* part_000 step 8: one request for the repository, then the loop over $collabs.
CollabFetch ==
    /\ pageStyle = "collab"
    /\ pagePc = "fetch"
    /\ collected' = collected \o RestPage(nItems, CollabPerPage, 1)
    /\ requests' = requests + 1
    /\ pagePc' = "done"
    /\ UNCHANGED <<chain, sentCursors, pageStyle, nItems, page, endCursor>>
    /\ UNCHANGED <<pipeVars, normVars, jsVars, callVars, runVars>>

\* Get-GitHubOrgRepoCollaborators.ps1 step 5: one request for the repository.
LegacyCollabFetch ==
    /\ pageStyle = "legacyCollab"
    /\ pagePc = "fetch"
    /\ collected' = collected \o RestPage(nItems, LegacyCollabPerPage, 1)
    /\ requests' = requests + 1
    /\ pagePc' = "done"
    /\ UNCHANGED <<chain, sentCursors, pageStyle, nItems, page, endCursor>>
    /\ UNCHANGED <<pipeVars, normVars, jsVars, callVars, runVars>>

\* index.js collabRole, one iteration of the do/while: the answer to its document
\* throws and the catch of collabRole ends the traversal; on an answer with data
\* endCursor is assigned inside the loop over the edges of the page.
JsCollabFetch ==
    /\ pageStyle = "jsCollab"
    /\ pagePc = "fetch"
    /\ LET conn == CursorPage(nItems, JsFirst, endCursor)
       IN IF ~Parses("collabRole")
          THEN /\ pagePc' = "failed"
               /\ UNCHANGED <<collected, endCursor>>
          ELSE /\ collected' = collected \o conn.edges
               /\ endCursor' = IF Len(conn.edges) > 0
                               THEN (IF conn.hasNextPage THEN conn.endCursor ELSE 0)
                               ELSE endCursor
               /\ pagePc' = IF conn.hasNextPage THEN "fetch" ELSE "done"
    /\ requests' = requests + 1
    /\ UNCHANGED <<chain, sentCursors, pageStyle, nItems, page>>
    /\ UNCHANGED <<pipeVars, normVars, jsVars, callVars, runVars>>

CollabPageNext ==
    \/ CollabFetch
    \/ LegacyCollabFetch
    \/ JsCollabFetch

SpecCollabPage == CollabPageInit /\ [][CollabPageNext]_vars

(* C11: a repository contributes every one of its collaborators, also when it  *)
(* has more than fit in one page.  The code does not satisfy this: part_000    *)
(* and Get-GitHubOrgRepoCollaborators.ps1 issue one request with per_page=100  *)
(* and never ask for a second page, and the request of collabRole is answered  *)
(* with an error.                                                              *)
C11_AllCollaborators ==
    pagePc \in {"done", "failed"} => collected = Items(1, nItems)

\* The single request of the PowerShell scripts brings the first page.
FirstPageOnly ==
    (pagePc = "done" /\ pageStyle \in {"collab", "legacyCollab"}) =>
        (requests = 1 /\ collected = Items(1, Min(nItems, CollabPerPage)))

\* collabRole ends on the error of its first request with no collaborator.
CollabRoleFailed ==
    pageStyle = "jsCollab" =>
        /\ pagePc # "done"
        /\ pagePc = "failed" => (requests = 1 /\ collected = << >>)

-----------------------------------------------------------------------------
(* One execute: Invoke-GitHubREST and Invoke-GitHubGraphQL of part_000,        *)
(* retryWithBackoff of index.js, Invoke-GitHubGraphQL of part_001              *)

MaxRetry == 5

\* [int]$RetryCount = 5 is a parameter; retries = 5 is what every caller of
\* retryWithBackoff gets.
JsRetries == 5
\* [int]$Delay = 2000 and delay = 2000, in milliseconds.
Delay == 2000
JsDelay == 2000
\* if ($rateInfo.remaining -lt 5) and if ($info.remaining -lt 20)
RateThreshold == 5
AuditThreshold == 20
\* reset = now + 60 when the lookup fails; + 10 of Check-RateLimit.
QuotaFailWait == 60
AuditSlack == 10

CallStyles == {"rest", "graphql", "js", "audit"}
ErrKinds == {"secondary", "auth", "network"}

\* What the quota endpoint may report: remaining, and the reset as an offset from now.
QuotaReadings == {0, 4, 5, 19, 20}
ResetOffsets == {0, 30}

\* A quota lookup whose failure is answered with a reset two minutes ahead.
GetRateLimit_FarReset(fails, remaining, reset, t) ==
    IF fails THEN [known |-> TRUE, remaining |-> 0, reset |-> t + 2 * QuotaFailWait]
    ELSE [known |-> TRUE, remaining |-> remaining, reset |-> reset]

\* Get-RateLimit: the reading, or remaining = 0 with a reset 60 s ahead on failure.
GetRateLimit(fails, remaining, reset, t) ==
    IF fails THEN [known |-> TRUE, remaining |-> 0, reset |-> t + QuotaFailWait]
    ELSE [known |-> TRUE, remaining |-> remaining, reset |-> reset]

\* Wait-IfRateLimited: the time at which it returns.
WaitIfRateLimited(info, t) ==
    IF info.remaining < RateThreshold /\ info.reset - t > 0 THEN info.reset ELSE t

\* Check-RateLimit of part_001: the time at which it returns.
CheckRateLimit(info, t) ==
    IF info.remaining < AuditThreshold
    THEN (IF info.reset - t + AuditSlack >= 0 THEN info.reset + AuditSlack ELSE t)
    ELSE t

\* Backoff growing by the base at every failure instead of doubling.
Backoff_Linear(base, i) == base * (i + 1)

\* $Delay * [math]::Pow(2, $i) and delay * Math.pow(2, i)
Backoff(base, i) == base * 2^i

\* The transport fails the first failTimes attempts.
TransportFails == attempts < failTimes

\* !error.message.includes('secondary rate limit')
NotSecondary(kind) == kind # "secondary"

\* The headers a response can carry: all the quota fields, all but
\* x-ratelimit-reset, or no header object at all.
HeaderKinds == {"full", "noReset", "absent"}

\* index.js logRateLimit: new Date(headers['x-ratelimit-reset'] * 1000).toISOString()
\* throws a RangeError when the field is missing (undefined * 1000 is NaN); without a
\* header object the else branch logs a line.
logRateLimit(h) == IF h = "noReset" THEN "RangeError" ELSE "logged"

\* part_000 Log-RateLimitHeaders: reads each field and writes a line for the ones
\* that are set; nothing for a missing field or a missing header object.
LogRateLimitHeaders(h) == "logged"

CallInit ==
    /\ RunIdle
    /\ PipeIdle
    /\ NormIdle
    /\ PageIdle
    /\ JsIdle
    /\ callStyle \in CallStyles
    /\ retryCount \in (IF callStyle = "js" THEN {JsRetries}
                       ELSE IF callStyle = "audit" THEN {1}
                       ELSE 0..MaxRetry)
    /\ errKind \in ErrKinds
    /\ failTimes \in (IF callStyle = "audit" THEN {0, 1} ELSE 0..(MaxRetry + 1))
    /\ quotaFails \in (IF callStyle \in {"rest", "graphql"} THEN BOOLEAN ELSE {FALSE})
    /\ ci = 0
    /\ attempts = 0
    /\ sleepLog = << >>
    /\ outcome = "none"
    /\ now = 0
    /\ rateInfo = NoReading
    /\ gateChecked = FALSE
    /\ headers = "full"
    /\ callPc = IF callStyle \in {"rest", "graphql"} THEN "gate" ELSE "try"

\* A loop that tests its condition only after the first iteration.
LoopRuns_BodyFirst(i, n) == i = 0 \/ i < n

\* for ($i=0; $i -lt $RetryCount; $i++) and for (let i = 0; i < retries; i++): the
\* condition is tested before every iteration, the first one included.
LoopRuns(i, n) == i < n

\* for ($i=0; $i -lt $RetryCount; $i++) { Wait-IfRateLimited ...
CallGate ==
    /\ callStyle \in {"rest", "graphql"}
    /\ callPc = "gate"
    /\ LoopRuns(ci, retryCount)
    /\ \E remaining \in QuotaReadings, d \in ResetOffsets :
          LET info == GetRateLimit(quotaFails, remaining, now + d, now)
          IN /\ rateInfo' = info
             /\ now' = WaitIfRateLimited(info, now)
    /\ gateChecked' = TRUE
    /\ callPc' = "try"
    /\ UNCHANGED <<callStyle, retryCount, errKind, failTimes, quotaFails, ci, attempts,
                   sleepLog, outcome, headers>>
    /\ UNCHANGED <<pipeVars, normVars, pageVars, jsVars, runVars>>

\* The loop ends without an attempt left: return $null.
CallLoopExit ==
    /\ callStyle \in {"rest", "graphql"}
    /\ callPc = "gate"
    /\ ~LoopRuns(ci, retryCount)
    /\ outcome' = "null"
    /\ callPc' = "done"
    /\ UNCHANGED <<callStyle, retryCount, errKind, failTimes, quotaFails, ci, attempts,
                   sleepLog, now, rateInfo, gateChecked, headers>>
    /\ UNCHANGED <<pipeVars, normVars, pageVars, jsVars, runVars>>

\* try { Invoke-WebRequest ...; return } catch { if ($i -eq $RetryCount-1) { throw }
\* Start-Sleep -Milliseconds ($Delay * [math]::Pow(2,$i)) }
CallAttempt ==
    /\ callStyle \in {"rest", "graphql"}
    /\ callPc = "try"
    /\ LogRateLimitHeaders(headers) = "logged"
    /\ attempts' = attempts + 1
    /\ gateChecked' = FALSE
    /\ IF ~TransportFails
       THEN /\ outcome' = "response"
            /\ callPc' = "done"
            /\ UNCHANGED <<ci, sleepLog, now>>
       ELSE IF ci = retryCount - 1
            THEN /\ outcome' = "error"
                 /\ callPc' = "done"
                 /\ UNCHANGED <<ci, sleepLog, now>>
            ELSE /\ sleepLog' = Append(sleepLog, Backoff(Delay, ci))
                 /\ now' = now + Backoff(Delay, ci) \div 1000
                 /\ ci' = ci + 1
                 /\ callPc' = "gate"
                 /\ UNCHANGED outcome
    /\ UNCHANGED <<callStyle, retryCount, errKind, failTimes, quotaFails, rateInfo, headers>>
    /\ UNCHANGED <<pipeVars, normVars, pageVars, jsVars, runVars>>

\* retryWithBackoff, one iteration of the for loop.
JsAttempt ==
    /\ callStyle = "js"
    /\ callPc = "try"
    /\ LoopRuns(ci, retryCount)
    /\ attempts' = attempts + 1
    /\ gateChecked' = FALSE
    /\ IF ~TransportFails
       THEN \* fn logs the response headers before it returns; what it throws is
            \* caught, has no response and no 'secondary rate limit' in its message.
            /\ outcome' = IF logRateLimit(headers) = "RangeError"
                           THEN "RangeError" ELSE "response"
            /\ callPc' = "done"
            /\ UNCHANGED <<ci, sleepLog, now>>
       ELSE IF headers # "absent" /\ logRateLimit(headers) = "RangeError"
            THEN \* thrown inside the catch block: it leaves retryWithBackoff.
                 /\ outcome' = "RangeError"
                 /\ callPc' = "done"
                 /\ UNCHANGED <<ci, sleepLog, now>>
       ELSE IF ci = retryCount - 1 \/ NotSecondary(errKind)
            THEN /\ outcome' = "error"
                 /\ callPc' = "done"
                 /\ UNCHANGED <<ci, sleepLog, now>>
            ELSE /\ sleepLog' = Append(sleepLog, Backoff(JsDelay, ci))
                 /\ now' = now + Backoff(JsDelay, ci) \div 1000
                 /\ ci' = ci + 1
                 /\ callPc' = "try"
                 /\ UNCHANGED outcome
    /\ UNCHANGED <<callStyle, retryCount, errKind, failTimes, quotaFails, rateInfo, headers>>
    /\ UNCHANGED <<pipeVars, normVars, pageVars, jsVars, runVars>>

\* part_001 Invoke-GitHubGraphQL: the request; a failed Invoke-RestMethod leaves
\* $response empty and the function goes on.
AuditCall ==
    /\ callStyle = "audit"
    /\ callPc = "try"
    /\ attempts' = attempts + 1
    /\ gateChecked' = FALSE
    /\ outcome' = IF TransportFails THEN "null" ELSE "response"
    /\ callPc' = "check"
    /\ UNCHANGED <<callStyle, retryCount, errKind, failTimes, quotaFails, ci, sleepLog, now,
                   rateInfo, headers>>
    /\ UNCHANGED <<pipeVars, normVars, pageVars, jsVars, runVars>>

\* part_001 Check-RateLimit, called after the request.
AuditCheck ==
    /\ callStyle = "audit"
    /\ callPc = "check"
    /\ \E remaining \in QuotaReadings, d \in ResetOffsets :
          LET info == [known |-> TRUE, remaining |-> remaining, reset |-> now + d]
          IN /\ rateInfo' = info
             /\ now' = CheckRateLimit(info, now)
    /\ gateChecked' = TRUE
    /\ callPc' = "done"
    /\ UNCHANGED <<callStyle, retryCount, errKind, failTimes, quotaFails, ci, attempts,
                   sleepLog, outcome, headers>>
    /\ UNCHANGED <<pipeVars, normVars, pageVars, jsVars, runVars>>

CallNext ==
    \/ CallGate
    \/ CallLoopExit
    \/ CallAttempt
    \/ JsAttempt
    \/ AuditCall
    \/ AuditCheck

SpecCall == CallInit /\ [][CallNext]_vars

Retrying == callStyle \in {"rest", "graphql", "js"}

(* C12: with retryCount = R >= 1, a transport that fails R times with a        *)
(* secondary-rate-limit error and then succeeds gives the successful response, *)
(* and one that fails R + 1 times gives an error.  The code does not satisfy   *)
(* the first half: the loops make R attempts in all, so the R-th failure is    *)
(* raised and the attempt that would succeed is never made.                    *)
C12_RetryThenSucceed ==
    (callPc = "done" /\ Retrying /\ errKind = "secondary" /\ retryCount >= 1) =>
        /\ failTimes = retryCount => outcome = "response"
        /\ failTimes = retryCount + 1 => outcome = "error"

(* C13: an error that is not a secondary rate-limit error, in particular an    *)
(* authentication error, is never retried: one attempt, no backoff sleep.  The *)
(* code does not satisfy this: the catch blocks of part_000 retry every error. *)
C13_NoRetryOnAuth ==
    (Retrying /\ errKind = "auth") => (attempts <= 1 /\ sleepLog = << >>)

\* retryWithBackoff alone raises an authentication error at once.
JsNoRetryOnAuth ==
    (callStyle = "js" /\ errKind = "auth") => (attempts <= 1 /\ sleepLog = << >>)

(* C14: every transport call, retries included, is issued after a quota        *)
(* reading taken since the previous call, and never while that reading is      *)
(* below 5 with its reset still ahead.  The code does not satisfy this:        *)
(* part_001 reads the quota only after a request, and retryWithBackoff never.  *)
C14_GateBeforeCall ==
    [][attempts' = attempts + 1 =>
          /\ gateChecked
          /\ ~(rateInfo.remaining < RateThreshold /\ now < rateInfo.reset)]_vars

\* Invoke-GitHubREST and Invoke-GitHubGraphQL of part_000 do gate every attempt.
Part000Gated ==
    [][(attempts' = attempts + 1 /\ callStyle \in {"rest", "graphql"}) =>
          /\ gateChecked
          /\ ~(rateInfo.remaining < RateThreshold /\ now < rateInfo.reset)]_vars

-----------------------------------------------------------------------------
(* One whole run and the failures of its calls: part_000 (steps 1-13) and the  *)
(* orchestrator of index.js.  The traversals of steps 5-9 are taken as the     *)
(* grants they yield; steps 6-9 are modelled in detail by Spec.                *)

\* What the API serves about the two logins.
VerifiedEmailOf == [u1 |-> "u1@corp", u2 |-> "u2@corp"]
Identities == <<[login |-> "u1", ssoEmail |-> "u1@sso"]>>
MembersServed == <<[login |-> "u1", role |-> "MEMBER"]>>

\* The repositories of the organization: names may differ in case.
RunRepoNames == {"Beta", "alpha"}

\* A grant on a repository: a direct collaborator (its record with or without a
\* name) or a team member.
GrantsOf(login) ==
    UNION {{[repo |-> r, login |-> login, source |-> "direct",
             name |-> ProfileNameOf[login], permission |-> "write"],
            [repo |-> r, login |-> login, source |-> "direct", name |-> "",
             permission |-> "write"],
            [repo |-> r, login |-> login, source |-> "team", name |-> "",
             permission |-> "read"]} : r \in RunRepoNames}

GrantLists ==
    {<< >>}
    \cup {<<g>> : g \in GrantsOf("u1") \cup GrantsOf("u2")}
    \cup {<<g, h>> : g \in GrantsOf("u1"), h \in GrantsOf("u2")}
    \cup {<<h, g>> : g \in GrantsOf("u1"), h \in GrantsOf("u2")}

Part000Faults == {"none", "orgId", "noId", "repos", "ssoForbidden", "ssoError", "members",
                  "teams"}
\* The server fails the collaborator query of one repository (collabRole of that
\* repository).
CollabFaults == {"collabs:alpha", "collabs:Beta"}

CollabFaultRepo(f) == IF f = "collabs:alpha" THEN "alpha" ELSE "Beta"

ActionFaults == {"none", "orgId", "noId", "repos", "ssoForbidden", "ssoError", "members"}
                    \cup CollabFaults

\* $emailArray | Where-Object { $_.login -eq $login }, then .ssoEmail or "";
\* $ssoEmailsHash[$row.login]; emailArray.find(...)
RECURSIVE SsoEmailOf(_, _)
SsoEmailOf(emails, login) ==
    IF emails = << >> THEN ""
    ELSE IF Head(emails).login = login THEN Head(emails).ssoEmail
    ELSE SsoEmailOf(Tail(emails), login)

\* Get-GitHubOrgSSOEmails with its catch, and the catch of step 3: the identities,
\* none without a provider or on a forbidden error, or the error raised again.
GetGitHubOrgSSOEmails(hasProvider, f) ==
    IF f = "ssoForbidden" THEN [raised |-> FALSE, emails |-> << >>]
    ELSE IF f = "ssoError" THEN [raised |-> TRUE, emails |-> << >>]
    ELSE IF ~hasProvider THEN [raised |-> FALSE, emails |-> << >>]
    ELSE [raised |-> FALSE, emails |-> Identities]

\* The row of step 8 (direct) and of step 7 (team) with the identity fields.
RunDirectRow(g, name, emails, members) ==
    [orgRepo |-> g.repo, login |-> g.login, name |-> name,
     ssoEmail |-> SsoEmailOf(emails, g.login), verifiedEmail |-> "",
     permission |-> g.permission,
     orgpermission |-> MemberValue(members, g.login), viaTeam |-> << >>]

RunTeamRow(g) ==
    [orgRepo |-> g.repo, login |-> g.login, name |-> "", ssoEmail |-> "",
     verifiedEmail |-> "", permission |-> g.permission, orgpermission |-> "",
     viaTeam |-> <<"tA">>]

\* Steps 5-9 over the grants: the rows, the profile requests issued (step 8 asks for
\* a name only with -FetchNames and an empty name), and whether a request raised.
RECURSIVE CollectRows(_, _, _, _, _, _)
CollectRows(gs, withNames, fails, emails, members, acc) ==
    IF gs = << >> THEN acc
    ELSE LET g == Head(gs)
             asks == g.source = "direct" /\ withNames /\ g.name = ""
         IN IF asks /\ g.login \in fails
            THEN [acc EXCEPT !.requests = Append(@, g.login), !.raised = TRUE]
            ELSE LET name == IF asks THEN ProfileNameOf[g.login] ELSE g.name
                     row == IF g.source = "direct"
                            THEN RunDirectRow(g, name, emails, members)
                            ELSE RunTeamRow(g)
                 IN CollectRows(Tail(gs), withNames, fails, emails, members,
                                [acc EXCEPT !.rows = Append(@, row),
                                            !.requests = IF asks THEN Append(@, g.login)
                                                         ELSE @])

\* $allRows | Select-Object -ExpandProperty login -Unique
RECURSIVE UniqueLogins(_, _)
UniqueLogins(rows, seen) ==
    IF rows = << >> THEN seen
    ELSE UniqueLogins(Tail(rows),
                      IF \E i \in 1..Len(seen) : seen[i] = Head(rows).login
                      THEN seen ELSE Append(seen, Head(rows).login))

GetVerifiedEmails_StopAtFailure(logins, fails) ==
    LET firstFail == IF \E i \in 1..Len(logins) : logins[i] \in fails
                     THEN CHOOSE i \in 1..Len(logins) :
                              /\ logins[i] \in fails
                              /\ \A j \in 1..(i - 1) : logins[j] \notin fails
                     ELSE Len(logins) + 1
    IN [l \in {logins[i] : i \in 1..(firstFail - 1)} |-> VerifiedEmailOf[l]]

\* Get-GitHubOrgVerifiedEmails and the hash of step 10: an entry for every login
\* whose lookup did not fail (the catch is inside the loop over the logins).
GetVerifiedEmails(logins, fails) ==
    [l \in {logins[i] : i \in 1..Len(logins)} \ fails |-> VerifiedEmailOf[l]]

\* $verifiedEmailsHash[$row.login]: empty when the login has no entry.
HashGet(h, login) == IF login \in DOMAIN h THEN h[login] ELSE ""

\* An enrichment that takes the permission of a row from the member's role.
EnrichRows_RoleAsPermission(rows, fails, hash, emails, members, acc) ==
    [acc EXCEPT !.rows = [i \in 1..Len(rows) |->
                            [rows[i] EXCEPT !.permission = MemberValue(members, rows[i].login)]]]

\* Step 11 over the rows in order: emails merged in, a profile request for every
\* row with an empty name, the role filled in where it is empty.
RECURSIVE EnrichRows(_, _, _, _, _, _)
EnrichRows(rows, fails, hash, emails, members, acc) ==
    IF rows = << >> THEN acc
    ELSE LET row == Head(rows)
             asks == row.name = ""
         IN IF asks /\ row.login \in fails
            THEN [acc EXCEPT !.requests = Append(@, row.login), !.raised = TRUE]
            ELSE LET new == [row EXCEPT
                                !.verifiedEmail = HashGet(hash, row.login),
                                !.ssoEmail = SsoEmailOf(emails, row.login),
                                !.name = IF asks THEN ProfileNameOf[row.login] ELSE @,
                                !.orgpermission = IF @ = ""
                                                  THEN MemberValue(members, row.login)
                                                  ELSE @]
                 IN EnrichRows(Tail(rows), fails, hash, emails, members,
                               [acc EXCEPT !.rows = Append(@, new),
                                           !.requests = IF asks THEN Append(@, row.login)
                                                        ELSE @])

RunInit ==
    /\ PipeIdle
    /\ NormIdle
    /\ PageIdle
    /\ JsIdle
    /\ CallIdle
    /\ runProgram \in {"part000", "action"}
    /\ fault \in (IF runProgram = "part000" THEN Part000Faults ELSE ActionFaults)
    /\ saml \in BOOLEAN
    /\ fetchNames \in (IF runProgram = "part000" THEN BOOLEAN ELSE {FALSE})
    /\ jsonOut \in (IF runProgram = "part000" THEN {TRUE} ELSE BOOLEAN)
    /\ nameFails \in (IF runProgram = "part000" THEN SUBSET Logins ELSE {{}})
    /\ emailFails \in (IF runProgram = "part000" THEN SUBSET Logins ELSE {{}})
    /\ grants \in GrantLists
    /\ runRows = << >>
    /\ runEmails = << >>
    /\ runMembers = << >>
    /\ verifiedHash = << >>
    /\ nameRequests = << >>
    /\ runStarted = {}
    /\ csvWritten = FALSE
    /\ jsonWritten = FALSE
    /\ reportRows = << >>
    /\ runFailed = FALSE
    /\ runPc = "orgId"

\* An uncaught throw ends the script.
Abort ==
    /\ runPc' = "aborted"
    /\ runFailed' = TRUE

runInputs == <<runProgram, fault, saml, fetchNames, jsonOut, nameFails, emailFails, grants>>

\* Step 1: the org id, or the throw of Invoke-GitHubGraphQL, or the throw on no id.
RunOrgId ==
    /\ runProgram = "part000"
    /\ runPc = "orgId"
    /\ IF fault \in {"orgId", "noId"}
       THEN Abort
       ELSE runPc' = "repos" /\ UNCHANGED runFailed
    /\ UNCHANGED <<runInputs, runRows, runEmails, runMembers, verifiedHash, nameRequests,
                   runStarted, csvWritten, jsonWritten, reportRows>>
    /\ UNCHANGED <<pipeVars, normVars, pageVars, jsVars, callVars>>

\* Step 2: the repository listing.
RunRepos ==
    /\ runProgram = "part000"
    /\ runPc = "repos"
    /\ runStarted' = runStarted \cup {"repos"}
    /\ IF fault = "repos"
       THEN Abort
       ELSE runPc' = "sso" /\ UNCHANGED runFailed
    /\ UNCHANGED <<runInputs, runRows, runEmails, runMembers, verifiedHash, nameRequests,
                   csvWritten, jsonWritten, reportRows>>
    /\ UNCHANGED <<pipeVars, normVars, pageVars, jsVars, callVars>>

\* Step 3: SSO/SAML emails.
RunSso ==
    /\ runProgram = "part000"
    /\ runPc = "sso"
    /\ runStarted' = runStarted \cup {"sso"}
    /\ LET r == GetGitHubOrgSSOEmails(saml, fault)
       IN IF r.raised
          THEN Abort /\ UNCHANGED runEmails
          ELSE /\ runEmails' = r.emails
               /\ runPc' = "members"
               /\ UNCHANGED runFailed
    /\ UNCHANGED <<runInputs, runRows, runMembers, verifiedHash, nameRequests,
                   csvWritten, jsonWritten, reportRows>>
    /\ UNCHANGED <<pipeVars, normVars, pageVars, jsVars, callVars>>

\* Step 4: org members with role.
RunMembers ==
    /\ runProgram = "part000"
    /\ runPc = "members"
    /\ runStarted' = runStarted \cup {"members"}
    /\ IF fault = "members"
       THEN Abort /\ UNCHANGED runMembers
       ELSE /\ runMembers' = MembersServed
            /\ runPc' = "collect"
            /\ UNCHANGED runFailed
    /\ UNCHANGED <<runInputs, runRows, runEmails, verifiedHash, nameRequests,
                   csvWritten, jsonWritten, reportRows>>
    /\ UNCHANGED <<pipeVars, normVars, pageVars, jsVars, callVars>>

\* Steps 5-9: teams, team repos and members, collaborators, merge.
RunCollect ==
    /\ runProgram = "part000"
    /\ runPc = "collect"
    /\ runStarted' = runStarted \cup {"teams"}
                        \cup (IF fault = "teams" THEN {} ELSE {"collaborators"})
    /\ IF fault = "teams"
       THEN Abort /\ UNCHANGED <<runRows, nameRequests>>
       ELSE LET r == CollectRows(grants, fetchNames, nameFails, runEmails, runMembers,
                                 [rows |-> << >>, requests |-> nameRequests,
                                  raised |-> FALSE])
            IN /\ nameRequests' = r.requests
               /\ IF r.raised
                  THEN Abort /\ UNCHANGED runRows
                  ELSE /\ runRows' = r.rows
                       /\ runPc' = "verified"
                       /\ UNCHANGED runFailed
    /\ UNCHANGED <<runInputs, runEmails, runMembers, verifiedHash,
                   csvWritten, jsonWritten, reportRows>>
    /\ UNCHANGED <<pipeVars, normVars, pageVars, jsVars, callVars>>

\* Step 10: verified emails of the unique logins.
RunVerified ==
    /\ runProgram = "part000"
    /\ runPc = "verified"
    /\ runStarted' = runStarted \cup {"verifiedEmails"}
    /\ verifiedHash' = GetVerifiedEmails(UniqueLogins(runRows, << >>), emailFails)
    /\ runPc' = "enrich"
    /\ UNCHANGED <<runInputs, runRows, runEmails, runMembers, nameRequests,
                   csvWritten, jsonWritten, reportRows, runFailed>>
    /\ UNCHANGED <<pipeVars, normVars, pageVars, jsVars, callVars>>

\* Step 11: merge into each row.
RunEnrich ==
    /\ runProgram = "part000"
    /\ runPc = "enrich"
    /\ LET r == EnrichRows(runRows, nameFails, verifiedHash, runEmails, runMembers,
                           [rows |-> << >>, requests |-> nameRequests, raised |-> FALSE])
       IN /\ nameRequests' = r.requests
          /\ IF r.raised
             THEN Abort /\ UNCHANGED runRows
             ELSE /\ runRows' = r.rows
                  /\ runPc' = "filter"
                  /\ UNCHANGED runFailed
    /\ UNCHANGED <<runInputs, runEmails, runMembers, verifiedHash, runStarted,
                   csvWritten, jsonWritten, reportRows>>
    /\ UNCHANGED <<pipeVars, normVars, pageVars, jsVars, callVars>>

\* Step 12: filter by permission if not ALL.
RunFilter ==
    /\ runProgram = "part000"
    /\ runPc = "filter"
    /\ LET keep(row) == row.permission = permKey
       IN runRows' = IF Permission # "ALL" THEN SelectSeq(runRows, keep) ELSE runRows
    /\ runPc' = "export"
    /\ UNCHANGED <<runInputs, runEmails, runMembers, verifiedHash, nameRequests, runStarted,
                   csvWritten, jsonWritten, reportRows, runFailed>>
    /\ UNCHANGED <<pipeVars, normVars, pageVars, jsVars, callVars>>

\* Step 13: sort, Export-Csv, and the JSON file when $JSONPath is set.
RunExport ==
    /\ runProgram = "part000"
    /\ runPc = "export"
    /\ reportRows' = SortByRepo(runRows)
    /\ csvWritten' = TRUE
    /\ jsonWritten' = jsonOut
    /\ runPc' = "done"
    /\ UNCHANGED <<runInputs, runRows, runEmails, runMembers, verifiedHash, nameRequests,
                   runStarted, runFailed>>
    /\ UNCHANGED <<pipeVars, normVars, pageVars, jsVars, callVars>>

\* ssoCollab of mergeArrays: ssoEmailValue and memberValue added.
SsoCollab(collab, emails, members) ==
    [collab EXCEPT !.ssoEmail = SsoEmailOf(emails, collab.login),
                   !.orgpermission = MemberValue(members, collab.login)]

\* orgID: an error is caught and reported with core.setFailed; the function returns.
ActOrgID ==
    /\ runProgram = "action"
    /\ runPc = "orgId"
    /\ runFailed' = (runFailed \/ fault \in {"orgId", "noId"})
    /\ runPc' = "repos"
    /\ UNCHANGED <<runInputs, runRows, runEmails, runMembers, verifiedHash, nameRequests,
                   runStarted, csvWritten, jsonWritten, reportRows>>
    /\ UNCHANGED <<pipeVars, normVars, pageVars, jsVars, callVars>>

\* repoNames: the listing raises, or it arrives and the callback throws on
\* getRateLimitSleep; the catch of repoNames calls core.setFailed either way, and
\* collabRole is called for no repository.
ActRepoNames ==
    /\ runProgram = "action"
    /\ runPc = "repos"
    /\ runStarted' = runStarted \cup {"repos"}
    /\ runFailed' = (runFailed \/ fault = "repos"
                       \/ getRateLimitSleep(RunRepoNames) = "ReferenceError")
    /\ runPc' = "sso"
    /\ UNCHANGED <<runInputs, runRows, runEmails, runMembers, verifiedHash, nameRequests,
                   csvWritten, jsonWritten, reportRows>>
    /\ UNCHANGED <<pipeVars, normVars, pageVars, jsVars, callVars>>

\* ssoCheck, and ssoEmail when there is a provider: any error is caught and
\* reported with core.setFailed, that of the answer to the document of ssoEmail
\* included.
ActSsoCheck ==
    /\ runProgram = "action"
    /\ runPc = "sso"
    /\ runStarted' = runStarted \cup {"sso"}
    /\ IF fault \in {"ssoForbidden", "ssoError"}
       THEN runFailed' = TRUE /\ UNCHANGED runEmails
       ELSE IF saml /\ ~Parses("ssoEmail")
       THEN runFailed' = TRUE /\ UNCHANGED runEmails
       ELSE /\ runEmails' = IF saml THEN Identities ELSE << >>
            /\ UNCHANGED runFailed
    /\ runPc' = "members"
    /\ UNCHANGED <<runInputs, runRows, runMembers, verifiedHash, nameRequests,
                   csvWritten, jsonWritten, reportRows>>
    /\ UNCHANGED <<pipeVars, normVars, pageVars, jsVars, callVars>>

\* membersWithRole: the request raises, or the answer to its document does; the
\* catch calls core.setFailed and no member is pushed.
ActMembersWithRole ==
    /\ runProgram = "action"
    /\ runPc = "members"
    /\ runStarted' = runStarted \cup {"members"}
    /\ IF fault = "members" \/ ~Parses("membersWithRole")
       THEN runFailed' = TRUE /\ UNCHANGED runMembers
       ELSE runMembers' = MembersServed /\ UNCHANGED runFailed
    /\ runPc' = "merge"
    /\ UNCHANGED <<runInputs, runRows, runEmails, verifiedHash, nameRequests,
                   csvWritten, jsonWritten, reportRows>>
    /\ UNCHANGED <<pipeVars, normVars, pageVars, jsVars, callVars>>

\* mergeArrays.
ActMergeArrays ==
    /\ runProgram = "action"
    /\ runPc = "merge"
    /\ runRows' = [i \in 1..Len(runRows) |-> SsoCollab(runRows[i], runEmails, runMembers)]
    /\ runPc' = "report"
    /\ UNCHANGED <<runInputs, runEmails, runMembers, verifiedHash, nameRequests, runStarted,
                   csvWritten, jsonWritten, reportRows, runFailed>>
    /\ UNCHANGED <<pipeVars, normVars, pageVars, jsVars, callVars>>

\* report: the CSV file is committed.
ActReport ==
    /\ runProgram = "action"
    /\ runPc = "report"
    /\ reportRows' = ArraySort(runRows)
    /\ csvWritten' = TRUE
    /\ runPc' = IF jsonOut THEN "json" ELSE "done"
    /\ UNCHANGED <<runInputs, runRows, runEmails, runMembers, verifiedHash, nameRequests,
                   runStarted, jsonWritten, runFailed>>
    /\ UNCHANGED <<pipeVars, normVars, pageVars, jsVars, callVars>>

\* if (jsonExport === 'TRUE') { await json(mergeArray) }
ActJson ==
    /\ runProgram = "action"
    /\ runPc = "json"
    /\ jsonWritten' = TRUE
    /\ runPc' = "done"
    /\ UNCHANGED <<runInputs, runRows, runEmails, runMembers, verifiedHash, nameRequests,
                   runStarted, csvWritten, reportRows, runFailed>>
    /\ UNCHANGED <<pipeVars, normVars, pageVars, jsVars, callVars>>

RunNext ==
    \/ RunOrgId
    \/ RunRepos
    \/ RunSso
    \/ RunMembers
    \/ RunCollect
    \/ RunVerified
    \/ RunEnrich
    \/ RunFilter
    \/ RunExport
    \/ ActOrgID
    \/ ActRepoNames
    \/ ActSsoCheck
    \/ ActMembersWithRole
    \/ ActMergeArrays
    \/ ActReport
    \/ ActJson

SpecRun == RunInit /\ [][RunNext]_vars

\* The run ended on the throw of a profile (name) request.
NameAborted ==
    /\ runPc = "aborted"
    /\ nameRequests # << >>
    /\ nameRequests[Len(nameRequests)] \in nameFails

RowLogins(rows) == {rows[i].login : i \in 1..Len(rows)}

AfterVerified == runPc \in {"enrich", "filter", "export", "done"}

(* C15: when the organization id cannot be resolved (the call raises, or no    *)
(* id comes back) the run ends failed, no traversal is started and no report   *)
(* is written.  The Action does not satisfy this: orgID catches the error,     *)
(* calls core.setFailed and returns, and the orchestrator goes on.             *)
C15_OrgIdFatal ==
    fault \in {"orgId", "noId"} =>
        /\ runStarted = {}
        /\ ~csvWritten /\ ~jsonWritten
        /\ runPc # "orgId" => (runFailed /\ runPc = "aborted")

\* part_000 does end at step 1.
Part000OrgIdFatal ==
    (runProgram = "part000" /\ fault \in {"orgId", "noId"}) =>
        /\ runStarted = {}
        /\ ~csvWritten /\ ~jsonWritten
        /\ runPc # "orgId" => (runFailed /\ runPc = "aborted")

(* C16: when the repository listing, the team listing or another required      *)
(* call fails after its retries, no report is written, CSV or JSON.  The       *)
(* Action does not satisfy this: repoNames catches the error, the orchestrator *)
(* goes on and a report is written.                                            *)
C16_NoPartialReport ==
    fault \in {"repos", "teams", "members"} => (~csvWritten /\ ~jsonWritten)

\* part_000 writes nothing after such a failure.
Part000NoPartialReport ==
    (runProgram = "part000" /\ fault \in {"repos", "teams", "members", "ssoError"}) =>
        (~csvWritten /\ ~jsonWritten)

(* C17: in part_000 a verified-email lookup that fails for a login leaves that  *)
(* login without a verified email; the lookups of the other logins are made,    *)
(* step 10 never ends the run, and the report carries the email of every login  *)
(* whose lookup succeeded and an empty one for the others.                      *)
C17_VerifiedEmailBestEffort ==
    runProgram = "part000" =>
        /\ AfterVerified =>
              /\ DOMAIN verifiedHash = RowLogins(runRows) \ emailFails
              /\ ~runFailed
        /\ (runPc = "aborted" /\ "verifiedEmails" \in runStarted) => NameAborted
        /\ runPc = "done" =>
              /\ csvWritten
              /\ \A i \in 1..Len(reportRows) :
                    reportRows[i].verifiedEmail =
                        IF reportRows[i].login \in emailFails THEN ""
                        ELSE VerifiedEmailOf[reportRows[i].login]

\* The lookup of an earlier login failed, that of a later one succeeded, and the
\* report is written with both rows.
C17_Witness ==
    /\ runProgram = "part000"
    /\ runPc = "done"
    /\ csvWritten
    /\ \E i, j \in 1..Len(reportRows) :
          /\ i < j
          /\ reportRows[i].login \in emailFails
          /\ reportRows[i].verifiedEmail = ""
          /\ reportRows[j].login \notin emailFails
          /\ reportRows[j].verifiedEmail # ""

(* C18: a profile (name) lookup that fails for a login leaves the name empty    *)
(* and does not end the run.  part_000 does not satisfy this: Get-GitHubUserName *)
(* has no catch, so the throw of Invoke-GitHubREST ends the script in step 8 or  *)
(* step 11 and no report is written.                                            *)
C18_NameBestEffort ==
    (runProgram = "part000" /\ fault = "none") => runPc # "aborted"

(* C19: without a SAML identity provider, and with no call of the run failing, *)
(* the SSO identity set is empty, every row of the report has an empty         *)
(* ssoEmail, and the run raises no error and is not marked failed.  The Action *)
(* does not satisfy the last: every run of it is marked failed, by the error   *)
(* of repoNames (C10).                                                         *)
C19_NoSamlEmptySso ==
    (~saml /\ fault = "none") =>
        /\ runEmails = << >>
        /\ \A i \in 1..Len(runRows) : runRows[i].ssoEmail = ""
        /\ csvWritten => \A i \in 1..Len(reportRows) : reportRows[i].ssoEmail = ""
        /\ runFailed => NameAborted
        /\ runPc \in {"members", "merge", "collect"} => "sso" \in runStarted

\* part_000 without a provider: no identity, no ssoEmail, and no failure but that
\* of a name lookup.
Part000NoSamlEmptySso ==
    (runProgram = "part000" /\ ~saml /\ fault = "none") =>
        /\ runEmails = << >>
        /\ \A i \in 1..Len(runRows) : runRows[i].ssoEmail = ""
        /\ csvWritten => \A i \in 1..Len(reportRows) : reportRows[i].ssoEmail = ""
        /\ runFailed => NameAborted

\* ssoCheck of the Action pushes no identity and calls core.setFailed for no
\* error of its own when there is no provider.
ActionSsoCheckQuiet ==
    [][(runProgram = "action" /\ runPc = "sso" /\ ~saml /\ fault = "none") =>
          (runFailed' = runFailed /\ runEmails' = << >>)]_vars

\* A report with rows, written for an organization without a provider.
NoSamlReported ==
    /\ ~saml
    /\ fault = "none"
    /\ runPc = "done"
    /\ csvWritten
    /\ ~runFailed
    /\ "sso" \in runStarted
    /\ Len(reportRows) > 0

(* C20: a SAML provider query that fails with a forbidden error gives an empty *)
(* identity set; the run goes on, the report is written with empty ssoEmail    *)
(* and the run is not marked failed.  The Action does not satisfy the last:    *)
(* ssoCheck reports every error with core.setFailed.                           *)
C20_ForbiddenDegrades ==
    fault = "ssoForbidden" =>
        /\ runEmails = << >>
        /\ csvWritten => \A i \in 1..Len(reportRows) : reportRows[i].ssoEmail = ""
        /\ runFailed => NameAborted

\* part_000 takes the forbidden error as an empty set and is not failed by it.
Part000ForbiddenDegrades ==
    (runProgram = "part000" /\ fault = "ssoForbidden") =>
        /\ runEmails = << >>
        /\ csvWritten => \A i \in 1..Len(reportRows) : reportRows[i].ssoEmail = ""
        /\ runFailed => NameAborted

\* The role the organization records for a login, or the literal for a login that
\* is not a member.
OrgRoleOf(login) ==
    IF \E i \in 1..Len(MembersServed) : MembersServed[i].login = login
    THEN (CHOOSE m \in Range(MembersServed) : m.login = login).role
    ELSE "OUTSIDE COLLABORATOR"

(* C21: every row of a written report, direct-sourced or team-sourced, carries  *)
(* as orgRole the role the organization records for the login when the login    *)
(* is a member, and OUTSIDE COLLABORATOR when it is not.                         *)
C21_OrgRole ==
    csvWritten =>
        \A i \in 1..Len(reportRows) :
            reportRows[i].orgpermission = OrgRoleOf(reportRows[i].login)

\* part_000 classifies every row of every report it writes.
Part000OrgRole ==
    (runProgram = "part000" /\ csvWritten) =>
        \A i \in 1..Len(reportRows) :
            reportRows[i].orgpermission = OrgRoleOf(reportRows[i].login)

\* A report of part_000 with a team-sourced row of a member and a direct row of
\* an outside collaborator.
C21_Witness ==
    /\ runProgram = "part000"
    /\ csvWritten
    /\ \E i, j \in 1..Len(reportRows) :
          /\ reportRows[i].viaTeam # << >>
          /\ reportRows[i].orgpermission = "MEMBER"
          /\ reportRows[j].viaTeam = << >>
          /\ reportRows[j].orgpermission = "OUTSIDE COLLABORATOR"

\* Two consecutive rows of the written report are in ascending order of the
\* repository name, compared character by character.
Ascending(rows) ==
    \A i \in 1..(Len(rows) - 1) :
        CodeUnitRank(rows[i].orgRepo) <= CodeUnitRank(rows[i + 1].orgRepo)

(* C22: the rows of the written report are in ascending lexicographic order of  *)
(* the repository name.  part_000 does not satisfy this for names that differ   *)
(* in case: Sort-Object ignores case and puts "alpha" before "Beta".            *)
C22_SortedByRepo == csvWritten => Ascending(reportRows)

\* The report of part_000 is in ascending order when case is ignored.
Part000SortedIgnoringCase ==
    (runProgram = "part000" /\ csvWritten) =>
        \A i \in 1..(Len(reportRows) - 1) :
            NameRank(reportRows[i].orgRepo) <= NameRank(reportRows[i + 1].orgRepo)

\* A report whose rows came in the other order and were moved.
ReportReordered ==
    /\ csvWritten
    /\ Len(reportRows) = 2
    /\ reportRows # runRows

\* $collabsArray and $teamUserRepoPerms as steps 7 and 8 build them from the snapshot.
BuiltCollabs ==
    Flatten([i \in 1..Len(RepoNames) |->
                CollabRows(Permission, keysOrder, RepoNames[i], collabsApi[RepoNames[i]])])

BuiltTeamRows ==
    BuildTeamUserRepoPerms(BuildTeamRepoPerms(teamsApi), BuildTeamMembers(teamsApi))

\* Step 9 over the arrays ca and tu: seed from the direct rows, fold every team row.
Reconcile(ca, tu) ==
    FoldFrom([rowsByKey |-> SeedRows(ca), collabsArray |-> ca, teamUserRepoPerms |-> tu], 1)

\* The rows a merge state holds, by value.
RowSet(st) ==
    {Deref(st.rowsByKey[k], st.collabsArray, st.teamUserRepoPerms) : k \in DOMAIN st.rowsByKey}

\* Step 9 has ended and step 11 has not yet written into the rows.
Reconciled == pc = "step11"

(* C23: reconciling twice over the same snapshot gives the same rows, viaTeam   *)
(* included: after step 9 the arrays it read are as steps 7 and 8 built them,   *)
(* and step 9 run over them again gives the rows it gave.  part_000 does not    *)
(* satisfy this: on a tie step 9 appends the team to the viaTeam of the row     *)
(* object of the input array, and a second run appends it once more.            *)
C23_Idempotent ==
    Reconciled =>
        /\ collabsArray = BuiltCollabs
        /\ teamUserRepoPerms = BuiltTeamRows
        /\ RowSet(Reconcile(collabsArray, teamUserRepoPerms)) = RowSet(MergeState)

\* When step 9 met no tie its inputs are unchanged and a second run gives the
\* same rows.
RerunSameWithoutTie ==
    (Reconciled /\ collabsArray = BuiltCollabs /\ teamUserRepoPerms = BuiltTeamRows) =>
        RowSet(Reconcile(collabsArray, teamUserRepoPerms)) = RowSet(MergeState)

\* A run where step 9 replaced a direct row by a team row and changed no input.
ReplacedWithoutTie ==
    /\ Reconciled
    /\ collabsArray = BuiltCollabs /\ teamUserRepoPerms = BuiltTeamRows
    /\ collabsArray # << >>
    /\ \E k \in DOMAIN rowsByKey :
          /\ rowsByKey[k].arr = "team"
          /\ \E i \in 1..Len(collabsArray) : KeyOf(collabsArray[i]) = k

\* The name the collaborator record of a reported row came with: the name of the
\* grant of the row's repository and login.
RecordName(row) ==
    LET i == CHOOSE i \in 1..Len(grants) :
                 grants[i].repo = row.orgRepo /\ grants[i].login = row.login
    IN grants[i].name

(* C24: when names are not to be fetched no profile request is issued at any    *)
(* point of the run, and a row whose collaborator record has no name is         *)
(* reported with an empty name.  part_000 does not satisfy this: step 11 asks   *)
(* for the profile of every row with an empty name whatever -FetchNames says.   *)
C24_NoNameRequests ==
    ~fetchNames =>
        /\ nameRequests = << >>
        /\ csvWritten =>
              \A i \in 1..Len(reportRows) :
                  RecordName(reportRows[i]) = "" => reportRows[i].name = ""

\* Step 8 of part_000 does keep to -FetchNames: up to step 11 no request is issued.
Part000Step8NoNameRequests ==
    (runProgram = "part000" /\ ~fetchNames /\ runPc \in {"collect", "verified", "enrich"}) =>
        nameRequests = << >>

\* The Action issues no profile request.
ActionNoNameRequests == runProgram = "action" => nameRequests = << >>

(* C25: within one execute the sleep after the k-th failed attempt (k = 0, 1,   *)
(* ...) is the base delay times 2^k milliseconds, no sleep follows the last     *)
(* failed attempt, every sleep follows a failed attempt, and the transport is   *)
(* never called more than RetryCount times.                                     *)
C25_BackoffSchedule ==
    /\ \A k \in 1..Len(sleepLog) :
          sleepLog[k] = (IF callStyle = "js" THEN JsDelay ELSE Delay) * 2^(k - 1)
    /\ attempts <= retryCount
    /\ Len(sleepLog) <= Min(attempts, failTimes)
    /\ ci = Len(sleepLog)
    /\ (callPc = "done" /\ outcome = "error") => Len(sleepLog) = attempts - 1
    /\ (callPc = "done" /\ outcome = "response") => Len(sleepLog) = attempts - 1

\* With the defaults, five failures: four sleeps of 2000, 4000, 8000 and 16000
\* milliseconds, then the error with no fifth sleep.
C25_Witness ==
    /\ Retrying
    /\ retryCount = 5
    /\ callPc = "done"
    /\ outcome = "error"
    /\ attempts = 5
    /\ sleepLog = <<2000, 4000, 8000, 16000>>

\* What retrying gives for the error kind: a transport that fails fewer times than
\* there are attempts is called until it succeeds, with one backoff sleep after
\* every failure; one that fails more often is called RetryCount times.
RetriedToTheBound(kind) ==
    (callPc = "done" /\ Retrying /\ errKind = kind) =>
        /\ failTimes < retryCount =>
              /\ outcome = "response"
              /\ attempts = failTimes + 1
              /\ Len(sleepLog) = failTimes
        /\ (failTimes >= retryCount /\ retryCount >= 1) =>
              /\ outcome = "error"
              /\ attempts = retryCount
              /\ Len(sleepLog) = retryCount - 1

(* C26: a transient network error is retried exactly like a secondary rate-     *)
(* limit error: the same bound on attempts, the same backoff sleeps, and the    *)
(* response of a later attempt within the bound is returned.  The Action does   *)
(* not satisfy this: retryWithBackoff raises at once every error whose message  *)
(* does not contain 'secondary rate limit'.                                     *)
C26_NetworkRetried == RetriedToTheBound("network")

\* The secondary rate-limit error is retried to the bound by every client.
SecondaryRetried == RetriedToTheBound("secondary")

\* part_000 retries a network error as it retries a secondary rate-limit error.
Part000NetworkRetried == callStyle \in {"rest", "graphql"} => RetriedToTheBound("network")

\* A call of part_000 that met two network errors and then got its response.
NetworkErrorRecovered ==
    /\ callStyle \in {"rest", "graphql"}
    /\ errKind = "network"
    /\ callPc = "done"
    /\ failTimes = 2
    /\ outcome = "response"
    /\ sleepLog = <<2000, 4000>>

\* The page size of the offset traversal that runs.
PageSizeOf(style) == IF style = "js" THEN JsPerPage ELSE RestPerPage

\* Requests of an offset traversal that asks for page p + 1 exactly when page p
\* was full: one per full page, and the short or empty page that ends it.
OffsetRequests(n, size) == n \div size + 1

(* C27: an offset traversal asks for page p + 1 if and only if page p held      *)
(* exactly pageSize items: the first page with fewer items, an empty one        *)
(* included, is the last request.  The Action does not satisfy this: repoNames  *)
(* ends on the error of its callback after the first page, full or not.         *)
C27_OffsetStops ==
    pageStyle \in {"rest", "js"} =>
        /\ requests <= OffsetRequests(nItems, PageSizeOf(pageStyle))
        /\ pagePc \in {"done", "failed"} =>
              requests = OffsetRequests(nItems, PageSizeOf(pageStyle))
        /\ pagePc = "fetch" => Len(collected) = requests * PageSizeOf(pageStyle)

\* The do/while loops of part_000 stop after the first page that is not full.
Part000OffsetStops ==
    pageStyle = "rest" =>
        /\ requests <= OffsetRequests(nItems, RestPerPage)
        /\ pagePc = "done" => requests = OffsetRequests(nItems, RestPerPage)
        /\ pagePc = "fetch" => Len(collected) = requests * RestPerPage

\* part_000 ended on a short page, and on the empty page after full ones.
ShortPageEnded ==
    pagePc = "done" /\ pageStyle = "rest" /\ nItems = RestPerPage + 1 /\ requests = 2

\* The Action has stopped after a full first page.
FullPageNotFollowed ==
    pageStyle = "js" /\ pagePc = "failed" /\ nItems >= JsPerPage /\ requests = 1

-----------------------------------------------------------------------------
(* Cursor traversals over a chain of pages the server serves: membersWithRole   *)
(* (step 4) and externalIdentities (Get-GitHubOrgSSOEmails) of part_000,        *)
(* collaborators, externalIdentities and membersWithRole of index.js            *)

MaxPages == 3
MaxEdgesPerPage == 2
\* Requests are counted up to two past the pages of the longest chain.
MaxRequests == MaxPages + 2

CursorStyles == {"members", "sso", "jsCollab", "jsSso", "jsMembers"}

\* An edge is kept by the loop over the page or skipped by it (an identity without
\* a user, a collaborator with another permission).
EdgeKinds == {"kept", "skipped"}

\* The chains a server may serve: at least one page, any page may be empty.
Chains ==
    UNION {[1..n -> SeqsUpTo(EdgeKinds, MaxEdgesPerPage)] : n \in 1..MaxPages}

\* The connection served for the cursor `after` (0: null; k: the endCursor of page k).
ChainPage(ch, after) ==
    [edges |-> [i \in 1..Len(ch[after + 1]) |->
                   [pg |-> after + 1, pos |-> i, kind |-> ch[after + 1][i]]],
     hasNextPage |-> after + 1 < Len(ch),
     endCursor |-> after + 1]

\* The edges the loop over a page pushes: the styles with a filter skip some.
Pushed(style, edges) ==
    LET keep(e) == style \in {"members", "jsMembers"} \/ e.kind = "kept"
    IN SelectSeq(edges, keep)

\* $endCursor = $pi.endCursor, after the loop over the edges.
CursorAfterLoop(conn, cur) == conn.endCursor

\* if (hasNextPage) { endCursor = ...pageInfo.endCursor } else { endCursor = null },
\* inside the loop over the edges: a page without edges leaves the cursor as it was.
CursorInsideLoop(conn, cur) ==
    IF Len(conn.edges) > 0
    THEN (IF conn.hasNextPage THEN conn.endCursor ELSE 0)
    ELSE cur

CursorInit ==
    /\ RunIdle
    /\ CallIdle
    /\ PipeIdle
    /\ NormIdle
    /\ JsIdle
    /\ pageStyle \in CursorStyles
    /\ chain \in Chains
    /\ nItems = 0
    /\ page = 1
    /\ endCursor = 0
    /\ collected = << >>
    /\ requests = 0
    /\ sentCursors = << >>
    /\ pagePc = "fetch"

\* part_000 step 4 and Get-GitHubOrgSSOEmails, one iteration of the do/while.
Part000CursorFetch ==
    /\ pageStyle \in {"members", "sso"}
    /\ pagePc = "fetch"
    /\ requests < MaxRequests
    /\ LET conn == ChainPage(chain, endCursor)
       IN /\ collected' = collected \o Pushed(pageStyle, conn.edges)
          /\ endCursor' = CursorAfterLoop(conn, endCursor)
          /\ pagePc' = IF conn.hasNextPage THEN "fetch" ELSE "done"
    /\ sentCursors' = Append(sentCursors, endCursor)
    /\ requests' = requests + 1
    /\ UNCHANGED <<pageStyle, nItems, page, chain>>
    /\ UNCHANGED <<pipeVars, normVars, jsVars, callVars, runVars>>

\* The document a cursor traversal of index.js sends.
DocumentOf(style) ==
    CASE style = "jsCollab" -> "collabRole"
      [] style = "jsSso" -> "ssoEmail"
      [] style = "jsMembers" -> "membersWithRole"

\* index.js collabRole, ssoEmail and membersWithRole, one iteration of the do/while:
\* the answer to the document throws and the catch of the function ends the
\* traversal.
JsCursorFetch ==
    /\ pageStyle \in {"jsCollab", "jsSso", "jsMembers"}
    /\ pagePc = "fetch"
    /\ requests < MaxRequests
    /\ LET conn == ChainPage(chain, endCursor)
       IN IF ~Parses(DocumentOf(pageStyle))
          THEN /\ pagePc' = "failed"
               /\ UNCHANGED <<collected, endCursor>>
          ELSE /\ collected' = collected \o Pushed(pageStyle, conn.edges)
               /\ endCursor' = CursorInsideLoop(conn, endCursor)
               /\ pagePc' = IF conn.hasNextPage THEN "fetch" ELSE "done"
    /\ sentCursors' = Append(sentCursors, endCursor)
    /\ requests' = requests + 1
    /\ UNCHANGED <<pageStyle, nItems, page, chain>>
    /\ UNCHANGED <<pipeVars, normVars, jsVars, callVars, runVars>>

CursorNext ==
    \/ Part000CursorFetch
    \/ JsCursorFetch

SpecCursor == CursorInit /\ [][CursorNext]_vars

\* Every request carries the endCursor of the page before it (the first carries
\* null), and the traversal goes on exactly while a page of the chain is left:
\* it has ended only after one request per page.
CursorThreaded ==
    /\ \A k \in 1..Len(sentCursors) : sentCursors[k] = k - 1
    /\ requests <= Len(chain)
    /\ pagePc \in {"done", "failed"} => requests = Len(chain)

(* C28: a cursor traversal goes on exactly while the last page reported a next  *)
(* page, and every request carries the endCursor of the page just before it,    *)
(* also after a page with no edges or with skipped edges only; so it ends after *)
(* one request per page of the chain.  The traversals of index.js do not        *)
(* satisfy this: they send one request, with the null cursor, the document is   *)
(* rejected, and they end with the pages of the chain unread.                   *)
C28_CursorThreaded == pageStyle \in CursorStyles => CursorThreaded

\* The traversals of part_000 thread the cursor through the whole chain.
Part000CursorThreaded == pageStyle \in {"members", "sso"} => CursorThreaded

\* The externalIdentities traversal of part_000 went through a chain whose first
\* page holds skipped edges only and whose middle page is empty.
SkippedAndEmptyPagesPassed ==
    /\ pageStyle = "sso"
    /\ pagePc = "done"
    /\ Len(chain) = 3
    /\ chain[1] = <<"skipped", "skipped">>
    /\ chain[2] = << >>
    /\ sentCursors = <<0, 1, 2>>

\* The traversals of index.js end on the answer to their first request.
CursorRequestRejected ==
    pageStyle \in {"jsCollab", "jsSso", "jsMembers"} =>
        /\ pagePc # "done"
        /\ pagePc = "failed" => (requests = 1 /\ collected = << >> /\ sentCursors = <<0>>)

-----------------------------------------------------------------------------
(* part_000 steps 6-13 run with -FetchNames: step 8 puts the profile name in    *)
(* every direct row                                                             *)

NamedInit ==
    /\ CallIdle
    /\ NormIdle
    /\ PageIdle
    /\ JsIdle
    /\ runProgram = "none"
    /\ fault = "none"
    /\ saml = FALSE
    /\ fetchNames = TRUE
    /\ jsonOut = FALSE
    /\ nameFails = {}
    /\ emailFails = {}
    /\ grants = << >>
    /\ runRows = << >>
    /\ runEmails = << >>
    /\ runMembers = << >>
    /\ verifiedHash = << >>
    /\ nameRequests = << >>
    /\ runStarted = {}
    /\ csvWritten = FALSE
    /\ jsonWritten = FALSE
    /\ reportRows = << >>
    /\ runFailed = FALSE
    /\ runPc = "idle"
    /\ Permission \in PermissionInputs
    /\ keysOrder \in KeyOrders
    /\ teamsApi \in TeamSnapshots
    /\ collabsApi \in [Range(RepoNames) -> SeqsUpTo(CollabEntries, MaxCollabs)]
    /\ repos = RepoNames
    /\ teamRepoPerms = << >>
    /\ teamMembers = << >>
    /\ teamUserRepoPerms = << >>
    /\ collabsArray = << >>
    /\ rowsByKey = << >>
    /\ allRows = << >>
    /\ csvRows = << >>
    /\ pending = {}
    /\ ri = 1
    /\ ti = 1
    /\ pc = "step6"

SpecNamed == NamedInit /\ [][Next]_vars

\* What the claim says of the fold of a higher team row, the name apart: the row
\* of the key takes the team's permission, its viaTeam is that team alone, repo
\* and login are as before.
HigherTakesOver(before, after) ==
    /\ after.permission = NextTeamRow.permission
    /\ after.viaTeam = NextTeamRow.viaTeam
    /\ Len(after.viaTeam) = 1
    /\ after.orgRepo = before.orgRepo
    /\ after.login = before.login

(* C29: folding a team row into a key whose row has a strictly lower permission *)
(* gives the row the team's permission and makes its viaTeam that one team;     *)
(* repo, login and a name already known stay as they were.  part_000 does not   *)
(* satisfy the last: the row is replaced by the team row, whose name is empty.  *)
C29_HigherReplaces ==
    [][(FoldPending /\ NextKeyPresent /\ NextTeamIdx > NextCurIdx) =>
          LET key == KeyOf(NextTeamRow)
              before == RowOf(key)
              after == Deref(rowsByKey'[key], collabsArray', teamUserRepoPerms')
          IN /\ HigherTakesOver(before, after)
             /\ before.name # "" => after.name = before.name
      ]_vars

\* Permission, viaTeam, repo and login are as the claim says.
HigherReplacesButName ==
    [][(FoldPending /\ NextKeyPresent /\ NextTeamIdx > NextCurIdx) =>
          LET key == KeyOf(NextTeamRow)
          IN HigherTakesOver(RowOf(key),
                             Deref(rowsByKey'[key], collabsArray', teamUserRepoPerms'))
      ]_vars

\* A row that recorded two tied teams has been replaced by a higher team row.
TiedTeamsDropped ==
    /\ pc = "step9"
    /\ ti > 2
    /\ LET t == teamUserRepoPerms[ti - 1]
           key == KeyOf(t)
       IN /\ rowsByKey[key] = TeamRef(ti - 1)
          /\ \E j \in 1..(ti - 2) :
                /\ KeyOf(teamUserRepoPerms[j]) = key
                /\ Len(teamUserRepoPerms[j].viaTeam) > 1
                /\ Level(teamUserRepoPerms[j].permission) < Level(t.permission)

-----------------------------------------------------------------------------
(* part_000 steps 6-13 over snapshots whose teams may have no member, one       *)
(* member or two                                                                *)

WideMemberLists == {<< >>, <<"u1">>, <<"u2">>, <<"u1", "u2">>}

WideTeamEntries(slug) ==
    {[slug |-> slug,
      repos |-> <<[name |-> RepoNames[1], permissions |-> RoleFlags[r]]>>,
      members |-> ms] : r \in TeamRoles, ms \in WideMemberLists}

WideTeamSnapshots ==
    UNION {{s \in [1..n -> UNION {WideTeamEntries(TeamSlugs[i]) : i \in 1..n}] :
                \A i \in 1..n : s[i].slug = TeamSlugs[i]} : n \in 0..MaxTeams}

TeamsInit ==
    /\ RunIdle
    /\ CallIdle
    /\ NormIdle
    /\ PageIdle
    /\ JsIdle
    /\ Permission = "ALL"
    /\ keysOrder \in KeyOrders
    /\ teamsApi \in WideTeamSnapshots
    /\ collabsApi \in [Range(RepoNames) -> SeqsUpTo(CollabEntries, MaxCollabs)]
    /\ repos = RepoNames
    /\ teamRepoPerms = << >>
    /\ teamMembers = << >>
    /\ teamUserRepoPerms = << >>
    /\ collabsArray = << >>
    /\ rowsByKey = << >>
    /\ allRows = << >>
    /\ csvRows = << >>
    /\ pending = {}
    /\ ri = 1
    /\ ti = 1
    /\ pc = "step6"

SpecTeams == TeamsInit /\ [][Next]_vars

\* Membership x grants on the snapshot: for every team, every repository it is
\* granted, every true flag of the grant and every member of the team.
Expansion ==
    UNION {UNION {{[team |-> teamsApi[t].slug, orgRepo |-> teamsApi[t].repos[g].name,
                    login |-> m, permission |-> permissionDisplay[f]] :
                      m \in Range(teamsApi[t].members),
                      f \in teamsApi[t].repos[g].permissions} :
                  g \in 1..Len(teamsApi[t].repos)} :
           t \in 1..Len(teamsApi)}

\* The team rows of step 7 as (team, repo, login, permission).
TeamRowSet ==
    {[team |-> teamUserRepoPerms[j].viaTeam[1], orgRepo |-> teamUserRepoPerms[j].orgRepo,
      login |-> teamUserRepoPerms[j].login, permission |-> teamUserRepoPerms[j].permission] :
        j \in 1..Len(teamUserRepoPerms)}

(* C30: the team rows of step 7 are exactly membership x grants: a row for      *)
(* every grant of a team and every member of that team, and no other row; a     *)
(* team without members contributes none and a login has rows only of teams it  *)
(* belongs to.  (A grant is read as one permission per true flag of its bundle.) *)
C30_TeamExpansion ==
    pc = "step8" =>
        /\ TeamRowSet = Expansion
        /\ Len(teamUserRepoPerms) = Cardinality(Expansion)
        /\ \A j \in 1..Len(teamUserRepoPerms) :
              \E t \in 1..Len(teamsApi) :
                  /\ teamsApi[t].slug = teamUserRepoPerms[j].viaTeam[1]
                  /\ teamUserRepoPerms[j].login \in Range(teamsApi[t].members)

\* Step 7 has run on a snapshot with a team without members and a team of u2
\* alone: there are rows for u2, all of its team, and none for u1.
C30_Witness ==
    /\ pc = "step8"
    /\ Len(teamsApi) = 2
    /\ teamsApi[1].members = << >>
    /\ teamsApi[2].members = <<"u2">>
    /\ teamUserRepoPerms # << >>
    /\ \A j \in 1..Len(teamUserRepoPerms) :
          /\ teamUserRepoPerms[j].login = "u2"
          /\ teamUserRepoPerms[j].viaTeam = <<teamsApi[2].slug>>

-----------------------------------------------------------------------------
(* One grant whose flag bundle the tables may not know: SpecFlags *)

\* The bundles GitHub serves, a bundle with no true flag, and a bundle whose only
\* true flag has a name the tables do not know.
FlagBundles == {RoleFlags[r] : r \in DOMAIN RoleFlags} \cup {{}, {"custom"}}

FlagsInit ==
    /\ RunIdle
    /\ CallIdle
    /\ PipeIdle
    /\ PageIdle
    /\ JsIdle
    /\ normPermission \in PermissionInputs
    /\ normFlags \in FlagBundles
    /\ normOrder \in KeyPermutations(FlagNames)
    /\ directPerm = ""
    /\ matchedPermission = ""
    /\ teamPermission = << >>
    /\ normErrors = 0
    /\ legacyRows = << >>
    /\ normPc = "directPerm"

SpecFlags == FlagsInit /\ [][NormNext]_vars

\* No flag of the bundle is one the tables know.
NoKnownFlag == normFlags \cap FlagNames = {}

(* C31: a flag bundle that is unrecognized or has no true flag yields no      *)
(* grant: no row for the login from the direct source, none from the team     *)
(* source, no row with an empty permission, and no error.  Step 8 satisfies   *)
(* this; step 7 does not: it builds a team row with an empty permission for   *)
(* an unknown flag, and for a bundle with no true flag it may index the table *)
(* with $null.                                                                 *)
C31_NoGrantNoRow ==
    (normPc = "done" /\ NoKnownFlag) =>
        /\ ~KeepDirect(normPermission, directPerm)
        /\ teamPermission = << >>
        /\ normErrors = 0

\* The direct source of part_000 (step 8) alone: no row and nothing raised.
Part000DirectNoGrantNoRow ==
    (normPc \in {"matchedPermission", "teamPermission", "done"} /\ NoKnownFlag) =>
        /\ directPerm = ""
        /\ ~KeepDirect(normPermission, directPerm)

\* An unknown flag has given a team row whose permission is empty.
UnknownFlagTeamRow ==
    /\ normPc = "done"
    /\ normFlags = {"custom"}
    /\ teamPermission = <<"">>

\* Get-GitHubOrgRepoCollaborators.ps1 with -Permission ALL takes the name of the
\* unknown flag as the permission of a row.
UnknownFlagLegacyRow ==
    /\ normPc = "done"
    /\ normPermission = "ALL"
    /\ normFlags = {"custom"}
    /\ matchedPermission = "custom"
    /\ Len(legacyRows) = 1 /\ legacyRows[1].permission = "custom"

\* A bundle with no true flag has given no team row and no error.
NoFlagNoPass ==
    /\ normPc = "done"
    /\ normFlags = {}
    /\ teamPermission = << >>
    /\ normErrors = 0

-----------------------------------------------------------------------------
(* The merge and the traversals before it *)

RECURSIVE DirectRowCount(_, _, _, _)
DirectRowCount(P, keys, rs, api) ==
    IF rs = << >> THEN 0
    ELSE Len(CollabRows(P, keys, Head(rs), api[Head(rs)]))
           + DirectRowCount(P, keys, Tail(rs), api)

\* The merge has started: step 9 or a later step is running, or a row is merged.
MergeStarted ==
    \/ pc \in {"step9", "step11", "step12", "step13", "done"}
    \/ rowsByKey # << >>
    \/ allRows # << >>

(* C32: the merge of direct and team grants starts only after the team        *)
(* enumeration, every team's repo-grant and member traversal (step 6), the    *)
(* team rows (step 7) and every repository's direct-collaborator fetch        *)
(* (step 8) have completed: while one of them is outstanding no row is merged. *)
C32_MergeAfterTraversals ==
    MergeStarted =>
        /\ ri > Len(repos)
        /\ teamRepoPerms = BuildTeamRepoPerms(teamsApi)
        /\ teamMembers = BuildTeamMembers(teamsApi)
        /\ Len(teamUserRepoPerms) = Len(BuildTeamUserRepoPerms(teamRepoPerms, teamMembers))
        /\ Len(collabsArray) = DirectRowCount(Permission, keysOrder, repos, collabsApi)

\* A team row has been folded into the direct rows after all the traversals.
C32_Witness ==
    /\ pc = "step9"
    /\ ti > 1
    /\ rowsByKey # << >>
    /\ collabsArray # << >>
    /\ teamUserRepoPerms # << >>

-----------------------------------------------------------------------------
(* One call whose responses carry any kind of headers: SpecLog *)

LogInit ==
    /\ RunIdle
    /\ PipeIdle
    /\ NormIdle
    /\ PageIdle
    /\ JsIdle
    /\ callStyle \in CallStyles
    /\ retryCount \in (IF callStyle = "js" THEN {JsRetries}
                       ELSE IF callStyle = "audit" THEN {1}
                       ELSE 0..MaxRetry)
    /\ errKind \in ErrKinds
    /\ failTimes \in (IF callStyle = "audit" THEN {0, 1} ELSE 0..(MaxRetry + 1))
    /\ quotaFails \in (IF callStyle \in {"rest", "graphql"} THEN BOOLEAN ELSE {FALSE})
    /\ ci = 0
    /\ attempts = 0
    /\ sleepLog = << >>
    /\ outcome = "none"
    /\ now = 0
    /\ rateInfo = NoReading
    /\ gateChecked = FALSE
    /\ headers \in HeaderKinds
    /\ callPc = IF callStyle \in {"rest", "graphql"} THEN "gate" ELSE "try"

SpecLog == LogInit /\ [][CallNext]_vars

\* What execute gives its caller when the logging calls are taken out of it.
UnloggedOutcome ==
    CASE callStyle \in {"rest", "graphql"} ->
             IF retryCount = 0 THEN "null"
             ELSE IF failTimes < retryCount THEN "response" ELSE "error"
      [] callStyle = "js" ->
             IF failTimes = 0 THEN "response"
             ELSE IF NotSecondary(errKind) THEN "error"
             ELSE IF failTimes < retryCount THEN "response" ELSE "error"
      [] OTHER -> IF failTimes > 0 THEN "null" ELSE "response"

(* C33: logging the quota headers never changes the outcome of a call: for    *)
(* headers that are present, absent or lack the reset time, execute returns   *)
(* the result or error it would return without the logging.  retryWithBackoff *)
(* of index.js does not satisfy this: logRateLimit throws on headers without  *)
(* x-ratelimit-reset.                                                          *)
C33_LoggingNeutral ==
    callPc = "done" => outcome = UnloggedOutcome

\* part_000 alone: Log-RateLimitHeaders leaves the outcome as it is.
Part000LoggingNeutral ==
    (callPc = "done" /\ callStyle \in {"rest", "graphql"}) => outcome = UnloggedOutcome

\* A call of index.js whose transport succeeded at once has ended in a RangeError.
LoggingFailedTheCall ==
    /\ callStyle = "js"
    /\ callPc = "done"
    /\ headers = "noReset"
    /\ failTimes = 0
    /\ outcome = "RangeError"

-----------------------------------------------------------------------------
(* The quota lookup that fails *)

\* The gate of one attempt has run with a failed quota lookup.
FailedLookupStep ==
    /\ quotaFails
    /\ callPc = "gate"
    /\ callPc' = "try"

(* C34: when the quota lookup itself fails, the client takes the quota as     *)
(* exhausted with a reset 60 seconds ahead: it waits at most that long and    *)
(* then issues the call, and the call ends as its transport decides, never    *)
(* aborted or failed by the lookup.                                            *)
C34_FailedLookupWaits ==
    /\ [][FailedLookupStep =>
             /\ rateInfo'.remaining = 0
             /\ rateInfo'.reset = now + QuotaFailWait
             /\ now' >= now
             /\ now' <= now + QuotaFailWait
             /\ outcome' = "none"
             /\ attempts' = attempts]_vars
    /\ [](quotaFails =>
             /\ callPc = "try" => gateChecked
             /\ callPc = "done" => outcome = UnloggedOutcome)

\* A call whose every quota lookup failed has waited and ended with a response.
C34_Witness ==
    /\ quotaFails
    /\ callPc = "done"
    /\ outcome = "response"
    /\ attempts = 2
    /\ now >= 2 * QuotaFailWait

-----------------------------------------------------------------------------
(* One call with any retry count, zero and below included: SpecAnyCount *)

\* -RetryCount is an [int] parameter of part_000 and retries a parameter of
\* retryWithBackoff: zero and negative values are accepted.
MinRetry == -1

AnyCountInit ==
    /\ RunIdle
    /\ PipeIdle
    /\ NormIdle
    /\ PageIdle
    /\ JsIdle
    /\ callStyle \in CallStyles
    /\ retryCount \in (IF callStyle = "js" THEN {MinRetry, 0, JsRetries}
                       ELSE IF callStyle = "audit" THEN {1}
                       ELSE MinRetry..MaxRetry)
    /\ errKind \in ErrKinds
    /\ failTimes \in (IF callStyle = "audit" THEN {0, 1} ELSE 0..(MaxRetry + 1))
    /\ quotaFails \in (IF callStyle \in {"rest", "graphql"} THEN BOOLEAN ELSE {FALSE})
    /\ ci = 0
    /\ attempts = 0
    /\ sleepLog = << >>
    /\ outcome = "none"
    /\ now = 0
    /\ rateInfo = NoReading
    /\ gateChecked = FALSE
    /\ headers = "full"
    /\ callPc = IF callStyle \in {"rest", "graphql"} THEN "gate" ELSE "try"

\* retryWithBackoff: the for loop ends without an iteration left and the function
\* returns undefined.
JsLoopExit ==
    /\ callStyle = "js"
    /\ callPc = "try"
    /\ ~LoopRuns(ci, retryCount)
    /\ outcome' = "undefined"
    /\ callPc' = "done"
    /\ UNCHANGED <<callStyle, retryCount, errKind, failTimes, quotaFails, ci, attempts,
                   sleepLog, now, rateInfo, gateChecked, headers>>
    /\ UNCHANGED <<pipeVars, normVars, pageVars, jsVars, runVars>>

AnyCountNext ==
    \/ CallNext
    \/ JsLoopExit

SpecAnyCount == AnyCountInit /\ [][AnyCountNext]_vars

(* C35: with a retry count of zero or below, execute issues no transport      *)
(* call and no quota check, waits for nothing, and returns a null result      *)
(* without raising an error: the result an empty success gives too.            *)
C35_ZeroRetryCount ==
    (callStyle \in {"rest", "graphql", "js"} /\ retryCount <= 0) =>
        /\ attempts = 0
        /\ ~gateChecked
        /\ rateInfo = NoReading
        /\ sleepLog = << >>
        /\ now = 0
        /\ outcome \in {"none", "null", "undefined"}
        /\ callPc = "done" => outcome \in {"null", "undefined"}

\* A call whose transport would have failed has returned $null with no attempt.
C35_Witness ==
    /\ callStyle = "rest"
    /\ retryCount = 0
    /\ failTimes > 0
    /\ callPc = "done"
    /\ outcome = "null"

\* The same for a negative count and for retryWithBackoff.
NegativeCountReturned ==
    /\ callStyle = "js"
    /\ retryCount < 0
    /\ callPc = "done"
    /\ outcome = "undefined"

-----------------------------------------------------------------------------
(* Step 9 folding the team rows in any order: SpecOrder *)

\* Two teams with u1 as their member and a grant on r1 each.
OrderSnapshots ==
    {s \in [1..2 -> UNION {TeamEntries(TeamSlugs[i]) : i \in 1..2}] :
        \A i \in 1..2 : s[i].slug = TeamSlugs[i] /\ s[i].members = <<"u1">>}

OrderInit ==
    /\ RunIdle
    /\ CallIdle
    /\ NormIdle
    /\ PageIdle
    /\ JsIdle
    /\ Permission = "ALL"
    /\ keysOrder \in KeyOrders
    /\ teamsApi \in OrderSnapshots
    /\ collabsApi \in [Range(RepoNames) -> SeqsUpTo(CollabEntries, 1)]
    /\ repos = RepoNames
    /\ teamRepoPerms = << >>
    /\ teamMembers = << >>
    /\ teamUserRepoPerms = << >>
    /\ collabsArray = << >>
    /\ rowsByKey = << >>
    /\ allRows = << >>
    /\ csvRows = << >>
    /\ pending = {}
    /\ ri = 1
    /\ ti = 1
    /\ pc = "step6"

\* foreach ($c in $collabsArray) { $rowsByKey[$key] = $c }, with every team row
\* still to fold.
SeedAnyOrder ==
    /\ pc = "step8"
    /\ TraversalsDone(ri, repos)
    /\ rowsByKey' = SeedRows(collabsArray)
    /\ pending' = 1..Len(teamUserRepoPerms)
    /\ pc' = "fold"
    /\ UNCHANGED <<Permission, keysOrder, teamsApi, collabsApi, repos, teamRepoPerms,
                   teamMembers, teamUserRepoPerms, collabsArray, allRows, csvRows, ri, ti>>
    /\ UNCHANGED <<normVars, pageVars, jsVars, callVars, runVars>>

\* The body of foreach ($t in $teamUserRepoPerms) for any row not yet taken.
FoldAnyOrder ==
    /\ pc = "fold"
    /\ \E j \in pending :
          LET st == FoldRow(MergeState, j)
          IN /\ rowsByKey' = st.rowsByKey
             /\ collabsArray' = st.collabsArray
             /\ teamUserRepoPerms' = st.teamUserRepoPerms
             /\ pending' = pending \ {j}
    /\ UNCHANGED <<Permission, keysOrder, teamsApi, collabsApi, repos, teamRepoPerms,
                   teamMembers, allRows, csvRows, ri, ti, pc>>
    /\ UNCHANGED <<normVars, pageVars, jsVars, callVars, runVars>>

OrderNext ==
    \/ Step6
    \/ Step7
    \/ Step8Repo
    \/ SeedAnyOrder
    \/ FoldAnyOrder

SpecOrder == OrderInit /\ [][OrderNext]_vars

\* The permission and the set of teams of every key of a merge state.
Reconciliation(st) ==
    [k \in DOMAIN st.rowsByKey |->
        LET row == Deref(st.rowsByKey[k], st.collabsArray, st.teamUserRepoPerms)
        IN [permission |-> row.permission, viaTeams |-> Slugs(row.viaTeam)]]

(* C36: for a fixed set of direct rows, the reconciled permission of every    *)
(* (repo, login) and the set of teams in its viaTeams are the same for every  *)
(* order in which the team rows are folded: the fold in any order ends with   *)
(* what the fold in the array's order gives.                                   *)
C36_OrderIndependent ==
    (pc = "fold" /\ pending = {}) =>
        Reconciliation(MergeState) = Reconciliation(Reconcile(BuiltCollabs, BuiltTeamRows))

\* A fold that took tB's row before tA's and tied them has ended.
C36_Witness ==
    /\ pc = "fold"
    /\ pending = {}
    /\ \E k \in DOMAIN rowsByKey :
          LET row == Deref(rowsByKey[k], collabsArray, teamUserRepoPerms)
          IN /\ Len(row.viaTeam) >= 3
             /\ row.viaTeam[1] = "tB"
             /\ "tA" \in Slugs(row.viaTeam)

-----------------------------------------------------------------------------
(* The Action when the collaborator query of one repository fails *)

CollabFetchFailed == runProgram = "action" /\ fault \in CollabFaults

\* The grants on the repositories whose query does not fail: with the affiliation
\* ALL the collaborators connection lists direct and team access alike.
OtherRepoGrants ==
    {g \in Range(grants) : g.repo # CollabFaultRepo(fault)}

(* C37: in the Action, a failed collaborator fetch for one repository is      *)
(* caught inside that fetch and only marks the run failed: the traversal goes *)
(* on with the other repositories, every later stage runs, and the rows of    *)
(* the other repositories are in the written report.  The Action does not     *)
(* satisfy the last: repoNames ends on the error of its callback before it    *)
(* calls collabRole for any repository (C10), so no collaborator query is     *)
(* started and the report holds no row.                                       *)
C37_FetchFailureContained ==
    CollabFetchFailed =>
        /\ runPc # "aborted"
        /\ runPc \in {"sso", "members", "merge", "report", "json", "done"} =>
              /\ runFailed
              /\ \A g \in OtherRepoGrants :
                    \E i \in 1..Len(runRows) :
                       /\ runRows[i].orgRepo = g.repo
                       /\ runRows[i].login = g.login
                       /\ runRows[i].permission = g.permission
        /\ runPc = "done" =>
              /\ {"repos", "collaborators", "sso", "members"} \subseteq runStarted
              /\ csvWritten
              /\ jsonOut => jsonWritten
              /\ \A g \in OtherRepoGrants :
                    \E i \in 1..Len(reportRows) :
                       /\ reportRows[i].orgRepo = g.repo
                       /\ reportRows[i].login = g.login
                       /\ reportRows[i].permission = g.permission

\* Every stage of the Action runs and the reports are written, whatever fails;
\* the run is marked failed, no collaborator query is started and no row is
\* collected.
ActionRunsThrough ==
    runProgram = "action" =>
        /\ runPc # "aborted"
        /\ runRows = << >> /\ reportRows = << >> /\ runMembers = << >>
        /\ "collaborators" \notin runStarted
        /\ runPc \in {"sso", "members", "merge", "report", "json", "done"} => runFailed
        /\ runPc = "done" =>
              /\ {"repos", "sso", "members"} \subseteq runStarted
              /\ csvWritten
              /\ jsonOut => jsonWritten

-----------------------------------------------------------------------------
(* What identity enrichment changes *)

\* Step 11 of part_000 or mergeArrays of the Action has run in this step.
EnrichmentStep ==
    /\ runPc \in {"enrich", "merge"}
    /\ runPc' # runPc

(* C38: identity enrichment changes only name, ssoEmail, verifiedEmail and    *)
(* the organization role: it adds no row, removes no row, and leaves the      *)
(* repo, login, permission and viaTeam of every row as they were.              *)
C38_EnrichmentFrame ==
    [][EnrichmentStep =>
          /\ Len(runRows') = Len(runRows)
          /\ \A i \in 1..Len(runRows) :
                /\ runRows'[i].orgRepo = runRows[i].orgRepo
                /\ runRows'[i].login = runRows[i].login
                /\ runRows'[i].permission = runRows[i].permission
                /\ runRows'[i].viaTeam = runRows[i].viaTeam]_vars

\* Two rows have been through step 11 and carry their organization role.
C38_Witness ==
    /\ runProgram = "part000"
    /\ runPc = "filter"
    /\ Len(runRows) = 2
    /\ \A i \in 1..2 : runRows[i].orgpermission # ""
    /\ \E i \in 1..2 : runRows[i].verifiedEmail # "" \/ runRows[i].ssoEmail # ""

=============================================================================
